---- MODULE Spec2Model ----
(***************************************************************************)
(* Model of the core mathematics of the Uniswap v3 LP monitor:             *)
(* TickMath (src/src/utils/tickMath.ts), BandCalculator                    *)
(* (src/src/utils/bandCalculator.ts) and the RebalanceStrategy /           *)
(* PoolMonitor pair (src/unnamed/part_002).                                *)
(*                                                                         *)
(* JavaScript bigint values are arbitrary-precision naturals.  They are    *)
(* represented here as little-endian sequences of base-256 limbs without   *)
(* leading zero limbs (zero is the empty sequence), so that the 128 and    *)
(* 256 bit intermediate values of the tick mathematics are computed        *)
(* exactly, limb by limb.                                                  *)
(***************************************************************************)
EXTENDS Integers, Sequences, FiniteSets, TLC

\* ------------------------------------------------------------------------
\* Arbitrary-precision naturals (JavaScript bigint)
\*
\* The loops over limbs are written as splits of the index range in halves,
\* which keeps the evaluation of a 32-limb operation a few levels deep.
\* ------------------------------------------------------------------------

Base == 256

Max(x, y) == IF x >= y THEN x ELSE y
Min(x, y) == IF x <= y THEN x ELSE y

\* Drops the zero limbs at the most significant end.
Norm(s) ==
  LET top == Max(0, CHOOSE n \in 0..Len(s) :
                       /\ n = 0 \/ s[n] # 0
                       /\ \A m \in (n + 1)..Len(s) : s[m] = 0)
  IN  SubSeq(s, 1, top)

Reverse(s) == [i \in 1..Len(s) |-> s[Len(s) + 1 - i]]

\* A bigint literal, written as its bytes in reading order (most significant first).
Hex(bytes) == Norm(Reverse(bytes))

BigZero == << >>

\* s is a well-formed bigint
IsBig(s) == \A i \in 1..Len(s) : s[i] \in 0..(Base - 1)

\* BigInt(n) for a small natural n
RECURSIVE BigFromNat(_)
BigFromNat(n) == IF n = 0 THEN << >> ELSE <<n % Base>> \o BigFromNat(n \div Base)

\* 2n ** n
BigPow2(n) ==
  Norm([i \in 1..((n \div 8) + 1) |-> IF i = (n \div 8) + 1 THEN 2 ^ (n % 8) ELSE 0])

\* -1, 0, 1 as a < b, a = b, a > b
BigCmp(a, b) ==
  IF Len(a) < Len(b) THEN -1
  ELSE IF Len(a) > Len(b) THEN 1
  ELSE IF a = b THEN 0
  ELSE LET i == CHOOSE j \in 1..Len(a) :
                  a[j] # b[j] /\ \A m \in (j + 1)..Len(a) : a[m] = b[m]
       IN  IF a[i] < b[i] THEN -1 ELSE 1

BigLt(a, b) == BigCmp(a, b) < 0
BigLeq(a, b) == BigCmp(a, b) <= 0

Limb(a, i) == IF i >= 1 /\ i <= Len(a) THEN a[i] ELSE 0

\* Propagates the carry c through the column sums cols[lo..hi].
RECURSIVE CarryRange(_, _, _, _)
CarryRange(cols, lo, hi, c) ==
  IF lo > hi THEN [limbs |-> << >>, carry |-> c]
  ELSE IF lo = hi
  THEN LET v == cols[lo] + c
       IN  [limbs |-> <<v % Base>>, carry |-> v \div Base]
  ELSE LET mid   == (lo + hi) \div 2
           left  == CarryRange(cols, lo, mid, c)
           right == CarryRange(cols, mid + 1, hi, left.carry)
       IN  [limbs |-> left.limbs \o right.limbs, carry |-> right.carry]

Carry(cols) ==
  LET r == CarryRange(cols, 1, Len(cols), 0)
  IN  Norm(r.limbs \o BigFromNat(r.carry))

BigAdd(a, b) ==
  Carry([i \in 1..Max(Len(a), Len(b)) |-> Limb(a, i) + Limb(b, i)])

\* a - b for a >= b: adds the complement and drops the final carry.
BigSub(a, b) ==
  LET r == CarryRange([i \in 1..Len(a) |-> a[i] + (Base - 1) - Limb(b, i)],
                      1, Len(a), 1)
  IN  Norm(r.limbs)

\* a[lo] * b[k+1-lo] + ... + a[hi] * b[k+1-hi]
RECURSIVE ColSum(_, _, _, _, _)
ColSum(a, b, k, lo, hi) ==
  IF lo > hi THEN 0
  ELSE IF lo = hi THEN a[lo] * b[k + 1 - lo]
  ELSE ColSum(a, b, k, lo, (lo + hi) \div 2)
       + ColSum(a, b, k, ((lo + hi) \div 2) + 1, hi)

BigMul(a, b) ==
  IF Len(a) = 0 \/ Len(b) = 0 THEN << >>
  ELSE Carry([k \in 1..(Len(a) + Len(b) - 1) |->
                ColSum(a, b, k, Max(1, k + 1 - Len(b)), Min(k, Len(a)))])

\* Largest q in 0..Base-1 with b * q <= rem, found bit by bit.
RECURSIVE QuotDigit(_, _, _, _)
QuotDigit(rem, b, q, bit) ==
  IF bit = 0 THEN q
  ELSE IF BigLeq(BigMul(b, <<q + bit>>), rem)
       THEN QuotDigit(rem, b, q + bit, bit \div 2)
       ELSE QuotDigit(rem, b, q, bit \div 2)

\* Long division of the limbs a[hi], ..., a[lo] by b > 0, entered with
\* remainder rem < b; the quotient digits come most significant first.
RECURSIVE DivRange(_, _, _, _, _)
DivRange(a, b, hi, lo, rem) ==
  IF hi < lo THEN [limbs |-> << >>, rem |-> rem]
  ELSE IF hi = lo
  THEN LET cur == Norm(<<a[hi]>> \o rem)
           q   == QuotDigit(cur, b, 0, Base \div 2)
       IN  IF BigLt(cur, b) THEN [limbs |-> <<0>>, rem |-> cur]
           ELSE [limbs |-> <<q>>, rem |-> BigSub(cur, BigMul(b, BigFromNat(q)))]
  ELSE LET mid   == (lo + hi) \div 2
           upper == DivRange(a, b, hi, mid + 1, rem)
           lower == DivRange(a, b, mid, lo, upper.rem)
       IN  [limbs |-> upper.limbs \o lower.limbs, rem |-> lower.rem]

\* a / b on bigints (truncating), b > 0
BigDiv(a, b) ==
  IF Len(b) = 0 \/ Len(a) = 0 THEN << >>
  ELSE Norm(Reverse(DivRange(a, b, Len(a), 1, << >>).limbs))

\* a % b on bigints, b > 0
BigMod(a, b) ==
  IF Len(b) = 0 \/ Len(a) = 0 THEN << >>
  ELSE DivRange(a, b, Len(a), 1, << >>).rem

\* a >> n
BigShr(a, n) ==
  IF n % 8 # 0 THEN BigDiv(a, BigPow2(n))
  ELSE IF Len(a) <= n \div 8 THEN << >>
  ELSE SubSeq(a, (n \div 8) + 1, Len(a))

\* ------------------------------------------------------------------------
\* TickMath
\* ------------------------------------------------------------------------

Q96 == BigPow2(96)
Q128 == BigPow2(128)

MIN_TICK == -887272
MAX_TICK == 887272

\* 2n ** 256n - 1n
MaxUint256 == BigSub(BigPow2(256), <<1>>)

\* JavaScript `a & b` on non-negative 32-bit integers.
RECURSIVE BitAnd(_, _)
BitAnd(a, b) ==
  IF a = 0 \/ b = 0 THEN 0
  ELSE (a % 2) * (b % 2) + 2 * BitAnd(a \div 2, b \div 2)

\* ToNumber(boolean)
BoolToNumber(b) == IF b THEN 1 ELSE 0

\* The expression `absTick & mask !== 0`.  In JavaScript `!==` binds tighter
\* than `&`, so it is absTick & (mask !== 0), i.e. absTick & ToNumber(true).
BitSelectedIntended(absTick, mask) == BitAnd(absTick, mask) # 0

BitSelected(absTick, mask) == BitAnd(absTick, BoolToNumber(mask # 0)) # 0

\* The two start values of `ratio` (bit 0x1).
RatioBit0 == Hex(<<\hff, \hfc, \hb9, \h33, \hbd, \h6f, \had, \h37, \haa, \h2d, \h16, \h2d, \h1a, \h59, \h40, \h01>>)
RatioOne == Hex(<<\h01, \h00, \h00, \h00, \h00, \h00, \h00, \h00, \h00, \h00, \h00, \h00, \h00, \h00, \h00, \h00, \h00>>)

\* The multiplication steps, masks 0x2 .. 0x80000, in source order.
MagicSteps == <<
  [mask |-> \h2,     mult |-> Hex(<<\hff, \hf9, \h72, \h72, \h37, \h3d, \h41, \h32, \h59, \ha4, \h69, \h90, \h58, \h0e, \h21, \h3a>>)],
  [mask |-> \h4,     mult |-> Hex(<<\hff, \hf2, \he5, \h0f, \h5f, \h65, \h69, \h32, \hef, \h12, \h35, \h7c, \hf3, \hc7, \hfd, \hcc>>)],
  [mask |-> \h8,     mult |-> Hex(<<\hff, \he5, \hca, \hca, \h7e, \h10, \he4, \he6, \h1c, \h36, \h24, \hea, \ha0, \h94, \h1c, \hd0>>)],
  [mask |-> \h10,    mult |-> Hex(<<\hff, \hcb, \h98, \h43, \hd6, \h0f, \h61, \h59, \hc9, \hdb, \h58, \h83, \h5c, \h92, \h66, \h44>>)],
  [mask |-> \h20,    mult |-> Hex(<<\hff, \h97, \h3b, \h41, \hfa, \h98, \hc0, \h81, \h47, \h2e, \h68, \h96, \hdf, \hb2, \h54, \hc0>>)],
  [mask |-> \h40,    mult |-> Hex(<<\hff, \h2e, \ha1, \h64, \h66, \hc9, \h6a, \h38, \h43, \hec, \h78, \hb3, \h26, \hb5, \h28, \h61>>)],
  [mask |-> \h80,    mult |-> Hex(<<\hfe, \h5d, \hee, \h04, \h6a, \h99, \ha2, \ha8, \h11, \hc4, \h61, \hf1, \h96, \h9c, \h30, \h53>>)],
  [mask |-> \h100,   mult |-> Hex(<<\hfc, \hbe, \h86, \hc7, \h90, \h0a, \h88, \hae, \hdc, \hff, \hc8, \h3b, \h47, \h9a, \ha3, \ha4>>)],
  [mask |-> \h200,   mult |-> Hex(<<\hf9, \h87, \ha7, \h25, \h3a, \hc4, \h13, \h17, \h6f, \h2b, \h07, \h4c, \hf7, \h81, \h5e, \h54>>)],
  [mask |-> \h400,   mult |-> Hex(<<\hf3, \h39, \h2b, \h08, \h22, \hb7, \h00, \h05, \h94, \h0c, \h7a, \h39, \h8e, \h4b, \h70, \hf3>>)],
  [mask |-> \h800,   mult |-> Hex(<<\he7, \h15, \h94, \h75, \ha2, \hc2, \h9b, \h74, \h43, \hb2, \h9c, \h7f, \ha6, \he8, \h89, \hd9>>)],
  [mask |-> \h1000,  mult |-> Hex(<<\hd0, \h97, \hf3, \hbd, \hfd, \h20, \h22, \hb8, \h84, \h5a, \hd8, \hf7, \h92, \haa, \h58, \h25>>)],
  [mask |-> \h2000,  mult |-> Hex(<<\ha9, \hf7, \h46, \h46, \h2d, \h87, \h0f, \hdf, \h8a, \h65, \hdc, \h1f, \h90, \he0, \h61, \he5>>)],
  [mask |-> \h4000,  mult |-> Hex(<<\h70, \hd8, \h69, \ha1, \h56, \hd2, \ha1, \hb8, \h90, \hbb, \h3d, \hf6, \h2b, \haf, \h32, \hf7>>)],
  [mask |-> \h8000,  mult |-> Hex(<<\h31, \hbe, \h13, \h5f, \h97, \hd0, \h8f, \hd9, \h81, \h23, \h15, \h05, \h54, \h2f, \hcf, \ha6>>)],
  [mask |-> \h10000, mult |-> Hex(<<\h09, \haa, \h50, \h8b, \h5b, \h7a, \h84, \he1, \hc6, \h77, \hde, \h54, \hf3, \he9, \h9b, \hc9>>)],
  [mask |-> \h20000, mult |-> Hex(<<\h5d, \h6a, \hf8, \hde, \hdb, \h81, \h19, \h66, \h99, \hc3, \h29, \h22, \h5e, \he6, \h04>>)],
  [mask |-> \h40000, mult |-> Hex(<<\h22, \h16, \he5, \h84, \hf5, \hfa, \h1e, \ha9, \h26, \h04, \h1b, \hed, \hfe, \h98>>)],
  [mask |-> \h80000, mult |-> Hex(<<\h04, \h8a, \h17, \h03, \h91, \hf7, \hdc, \h42, \h44, \h4e, \h8f, \ha2>>)] >>

\* One of lines 64..82: if (absTick & mask !== 0) ratio = (ratio * mult) >> 128n
MulStep(ratio, absTick, k) ==
  IF BitSelected(absTick, MagicSteps[k].mask)
  THEN BigShr(BigMul(ratio, MagicSteps[k].mult), 128)
  ELSE ratio

\* Lines 64..82 from step k on, in source order.
RECURSIVE MulSteps(_, _, _)
MulSteps(ratio, absTick, k) ==
  IF k > Len(MagicSteps) THEN ratio
  ELSE LET next == MulStep(ratio, absTick, k)
       IN  IF IsBig(next) THEN MulSteps(next, absTick, k + 1) ELSE BigZero

\* The uncached computation of getSqrtPriceX96FromTick (lines 58..90).
ComputeSqrtPriceX96(tick) ==
  LET absTick == IF tick < 0 THEN -tick ELSE tick
      ratio0  == IF BitSelected(absTick, \h1) THEN RatioBit0 ELSE RatioOne
      ratio1  == MulSteps(ratio0, absTick, 1)
      ratio2  == IF tick < 0 THEN BigDiv(MaxUint256, ratio1) ELSE ratio1
  IN  BigShr(ratio2, 32)

\* ------------------------------------------------------------------------
\* Inputs of the TickMath operations
\* ------------------------------------------------------------------------

\* Ticks are drawn from the windows of this radius around MIN_TICK, 0 and MAX_TICK.
TickWindow == 1

TickInputs ==
  UNION {(c - TickWindow)..(c + TickWindow) : c \in {MIN_TICK, 0, MAX_TICK}}

ValidTick(tick) == tick >= MIN_TICK /\ tick <= MAX_TICK

\* What the forward function produces on the valid input ticks.
ForwardOutputs ==
  {ComputeSqrtPriceX96(t) : t \in {u \in TickInputs : ValidTick(u)}}

\* Two sqrt prices the forward function does not produce.
SqrtProbes == {BigFromNat(1), BigAdd(Q96, BigFromNat(1))}

\* The ticks probed by the binary search of getTickFromSqrtPriceX96 for x.
RECURSIVE SearchTicks(_, _, _)
SearchTicks(x, tickLow, tickHigh) ==
  IF tickLow < tickHigh
  THEN LET tickMid == (tickLow + tickHigh) \div 2
       IN  {tickMid} \cup
           (IF BigLeq(ComputeSqrtPriceX96(tickMid), x)
            THEN SearchTicks(x, tickMid + 1, tickHigh)
            ELSE SearchTicks(x, tickLow, tickMid))
  ELSE {}

\* Every tick the TickMath operations evaluate the forward computation on.
KnownTicks ==
  {t \in TickInputs : ValidTick(t)} \cup {MIN_TICK, MAX_TICK}
    \cup UNION {SearchTicks(x, MIN_TICK, MAX_TICK) :
                  x \in {y \in ForwardOutputs \cup SqrtProbes :
                           /\ BigLeq(ComputeSqrtPriceX96(MIN_TICK), y)
                           /\ BigLeq(y, ComputeSqrtPriceX96(MAX_TICK))}}

\* ------------------------------------------------------------------------
\* TickMath operations on the cache
\* ------------------------------------------------------------------------

VARIABLES
  SQRT_PRICE_CACHE,  \* TickMath.SQRT_PRICE_CACHE: tick -> sqrtPriceX96
  tmCall,            \* the last TickMath call: operation, argument, outcome
  sqrtPriceTable     \* ComputeSqrtPriceX96 tabulated on a set of ticks; never changes

\* The result of the forward computation on a tabulated tick.
SqrtPriceX96At(tick) == sqrtPriceTable[tick]

\* sqrt prices handed to getTickFromSqrtPriceX96: every value the forward
\* function produces on the input ticks, and two values it does not produce.
SqrtInputs ==
  {SqrtPriceX96At(t) : t \in {u \in TickInputs : ValidTick(u)}} \cup SqrtProbes

NoCall == [op |-> "none", tick |-> 0, sqrtPriceX96 |-> BigZero, ok |-> TRUE]

\* tickToPrice: fails outside [MIN_TICK, MAX_TICK], else Math.pow(1.0001, tick),
\* kept as the power (10001 / 10000) ^ tick.
tickToPrice(tick) ==
  IF tick < MIN_TICK \/ tick > MAX_TICK
  THEN [ok |-> FALSE, price |-> [kind |-> "none"]]
  ELSE [ok |-> TRUE, price |-> [kind |-> "power", n |-> 10001, d |-> 10000, exponent |-> tick]]

\* getSqrtPriceX96FromTick leaving an entry in the cache when it fails.
getSqrtPriceX96FromTick_CachesFailure(c, tick) ==
  IF tick \in DOMAIN c
  THEN [ok |-> TRUE, value |-> c[tick], cache |-> c]
  ELSE IF tick < MIN_TICK \/ tick > MAX_TICK
  THEN [ok |-> FALSE, value |-> BigZero, cache |-> (tick :> BigZero) @@ c]
  ELSE LET sqrtPriceX96 == SqrtPriceX96At(tick)
       IN  [ok |-> TRUE, value |-> sqrtPriceX96,
            cache |-> (tick :> sqrtPriceX96) @@ c]

\* getSqrtPriceX96FromTick(tick) run on cache c: outcome and the cache afterwards.
getSqrtPriceX96FromTick(c, tick) ==
  IF tick \in DOMAIN c
  THEN [ok |-> TRUE, value |-> c[tick], cache |-> c]
  ELSE IF tick < MIN_TICK \/ tick > MAX_TICK
  THEN [ok |-> FALSE, value |-> BigZero, cache |-> c]
  ELSE LET sqrtPriceX96 == SqrtPriceX96At(tick)
       IN  [ok |-> TRUE, value |-> sqrtPriceX96,
            cache |-> (tick :> sqrtPriceX96) @@ c]

\* The while loop of getTickFromSqrtPriceX96 (lines 120..131).
RECURSIVE BinarySearch(_, _, _, _)
BinarySearch(c, sqrtPriceX96, tickLow, tickHigh) ==
  IF tickLow < tickHigh
  THEN LET tickMid      == (tickLow + tickHigh) \div 2
           sqrtPriceMid == getSqrtPriceX96FromTick(c, tickMid)
       IN  IF BigLeq(sqrtPriceMid.value, sqrtPriceX96)
           THEN BinarySearch(sqrtPriceMid.cache, sqrtPriceX96, tickMid + 1, tickHigh)
           ELSE BinarySearch(sqrtPriceMid.cache, sqrtPriceX96, tickLow, tickMid)
  ELSE [ok |-> TRUE, tick |-> tickLow - 1, cache |-> c]

getTickFromSqrtPriceX96_AlwaysSearch(c, sqrtPriceX96) ==
  LET minSqrtPrice == getSqrtPriceX96FromTick(c, MIN_TICK)
      maxSqrtPrice == getSqrtPriceX96FromTick(minSqrtPrice.cache, MAX_TICK)
  IN  IF BigLt(sqrtPriceX96, minSqrtPrice.value) \/ BigLt(maxSqrtPrice.value, sqrtPriceX96)
      THEN [ok |-> FALSE, tick |-> 0, cache |-> maxSqrtPrice.cache]
      ELSE BinarySearch(maxSqrtPrice.cache, sqrtPriceX96, MIN_TICK, MAX_TICK)

getTickFromSqrtPriceX96(c, sqrtPriceX96) ==
  LET minSqrtPrice == getSqrtPriceX96FromTick(c, MIN_TICK)
      maxSqrtPrice == getSqrtPriceX96FromTick(minSqrtPrice.cache, MAX_TICK)
  IN  IF BigLt(sqrtPriceX96, minSqrtPrice.value) \/ BigLt(maxSqrtPrice.value, sqrtPriceX96)
      THEN [ok |-> FALSE, tick |-> 0, cache |-> maxSqrtPrice.cache]
      ELSE IF sqrtPriceX96 = Q96
      THEN [ok |-> TRUE, tick |-> 0, cache |-> maxSqrtPrice.cache]
      ELSE BinarySearch(maxSqrtPrice.cache, sqrtPriceX96, MIN_TICK, MAX_TICK)

TickToPrice(tick) ==
  /\ tmCall' = [op |-> "tickToPrice", tick |-> tick, sqrtPriceX96 |-> BigZero,
                ok |-> tickToPrice(tick).ok, price |-> tickToPrice(tick).price]
  /\ UNCHANGED <<SQRT_PRICE_CACHE, sqrtPriceTable>>

\* A getSqrtPriceX96FromTick call whose result is not kept in the cache.
GetSqrtPriceX96FromTick_ForgetsResult(tick) ==
  LET r == getSqrtPriceX96FromTick(SQRT_PRICE_CACHE, tick)
  IN  /\ SQRT_PRICE_CACHE' = SQRT_PRICE_CACHE
      /\ tmCall' = [op |-> "getSqrtPriceX96FromTick", tick |-> tick,
                    sqrtPriceX96 |-> r.value, ok |-> r.ok,
                    hit |-> tick \in DOMAIN SQRT_PRICE_CACHE]
      /\ UNCHANGED sqrtPriceTable

\* hit records whether the tick was in the cache when the call was made.
GetSqrtPriceX96FromTick(tick) ==
  LET r == getSqrtPriceX96FromTick(SQRT_PRICE_CACHE, tick)
  IN  /\ SQRT_PRICE_CACHE' = r.cache
      /\ tmCall' = [op |-> "getSqrtPriceX96FromTick", tick |-> tick,
                    sqrtPriceX96 |-> r.value, ok |-> r.ok,
                    hit |-> tick \in DOMAIN SQRT_PRICE_CACHE]
      /\ UNCHANGED sqrtPriceTable

GetTickFromSqrtPriceX96(sqrtPriceX96) ==
  LET r == getTickFromSqrtPriceX96(SQRT_PRICE_CACHE, sqrtPriceX96)
  IN  /\ SQRT_PRICE_CACHE' = r.cache
      /\ tmCall' = [op |-> "getTickFromSqrtPriceX96", tick |-> r.tick,
                    sqrtPriceX96 |-> sqrtPriceX96, ok |-> r.ok]
      /\ UNCHANGED sqrtPriceTable

tmVars == <<SQRT_PRICE_CACHE, tmCall, sqrtPriceTable>>

TickMathNext ==
  \/ \E tick \in TickInputs : GetSqrtPriceX96FromTick(tick)
  \/ \E sqrtPriceX96 \in SqrtInputs : GetTickFromSqrtPriceX96(sqrtPriceX96)
  \/ \E tick \in TickInputs : TickToPrice(tick)

\* ------------------------------------------------------------------------
\* BandCalculator
\* ------------------------------------------------------------------------

\* an accepted-spacings list that also admits 2
validTickSpacings_WithTwo == {1, 2, 10, 60, 200}

validTickSpacings == {1, 10, 60, 200}

\* The default value of calculateBand's tickSpacing parameter.
DefaultTickSpacing == 1

\* Math.floor(a / b) and Math.ceil(a / b) for integers a and b > 0.
MathFloorDiv(a, b) == a \div b
MathCeilDiv(a, b) == -((-a) \div b)

BandError(message) ==
  [ok |-> FALSE, error |-> message, tickLower |-> 0, tickUpper |-> 0]

\* calculateBand rounding the upper bound down instead of up.
calculateBand_FloorUpper(currentTick, basisPoints, tickSpacing) ==
  IF basisPoints <= 0 THEN BandError("Basis points must be positive")
  ELSE IF tickSpacing \notin validTickSpacings THEN BandError("Invalid tick spacing")
  ELSE LET halfBand  == MathFloorDiv(basisPoints, 2)
           tickLower == MathFloorDiv(currentTick - halfBand, tickSpacing) * tickSpacing
           tickUpper == MathFloorDiv(currentTick + halfBand, tickSpacing) * tickSpacing
       IN  IF tickLower >= tickUpper
           THEN BandError("Invalid range: tickLower must be less than tickUpper")
           ELSE [ok |-> TRUE, error |-> "", tickLower |-> tickLower, tickUpper |-> tickUpper]

calculateBand(currentTick, basisPoints, tickSpacing) ==
  IF basisPoints <= 0 THEN BandError("Basis points must be positive")
  ELSE IF tickSpacing \notin validTickSpacings THEN BandError("Invalid tick spacing")
  ELSE LET halfBand  == MathFloorDiv(basisPoints, 2)
           rawLower  == currentTick - halfBand
           rawUpper  == currentTick + halfBand
           tickLower == MathFloorDiv(rawLower, tickSpacing) * tickSpacing
           tickUpper == MathCeilDiv(rawUpper, tickSpacing) * tickSpacing
       IN  IF tickLower >= tickUpper
           THEN BandError("Invalid range: tickLower must be less than tickUpper")
           ELSE [ok |-> TRUE, error |-> "", tickLower |-> tickLower, tickUpper |-> tickUpper]

\* isInRange with an inclusive upper bound.
isInRange_InclusiveUpper(currentTick, tickLower, tickUpper) ==
  currentTick >= tickLower /\ currentTick <= tickUpper

isInRange(currentTick, tickLower, tickUpper) ==
  currentTick >= tickLower /\ currentTick < tickUpper

\* Inputs of the BandCalculator operations.
MaxBandTick == 12
MaxBasisPoints == 4

BandTickInputs ==
  ((-MaxBandTick)..MaxBandTick) \cup {t \in TickInputs : ValidTick(t)}

BasisPointsInputs == ((-1)..MaxBasisPoints) \cup {10, 100}

TickSpacingInputs == {-1, 0, 1, 2, 10, 60, 200}

RangeBoundInputs == {-10, 0, 10}

VARIABLE bcCall   \* the last BandCalculator call: operation, arguments, outcome

NoBandCall == [op |-> "none"]

CalculateBand(currentTick, basisPoints, tickSpacing) ==
  bcCall' = [op |-> "calculateBand", currentTick |-> currentTick,
             basisPoints |-> basisPoints, tickSpacing |-> tickSpacing,
             result |-> calculateBand(currentTick, basisPoints, tickSpacing)]

IsInRange(currentTick, tickLower, tickUpper) ==
  bcCall' = [op |-> "isInRange", currentTick |-> currentTick,
             tickLower |-> tickLower, tickUpper |-> tickUpper,
             result |-> isInRange(currentTick, tickLower, tickUpper)]

getOutOfRangeDistance_NoPlusOne(currentTick, tickLower, tickUpper) ==
  IF currentTick < tickLower THEN tickLower - currentTick
  ELSE IF currentTick >= tickUpper THEN currentTick - tickUpper
  ELSE 0

getOutOfRangeDistance(currentTick, tickLower, tickUpper) ==
  IF currentTick < tickLower THEN tickLower - currentTick
  ELSE IF currentTick >= tickUpper THEN currentTick - tickUpper + 1
  ELSE 0

GetOutOfRangeDistance(currentTick, tickLower, tickUpper) ==
  bcCall' = [op |-> "getOutOfRangeDistance", currentTick |-> currentTick,
             tickLower |-> tickLower, tickUpper |-> tickUpper,
             result |-> getOutOfRangeDistance(currentTick, tickLower, tickUpper)]

bcVars == <<bcCall>>

BandNext ==
  \/ \E currentTick \in BandTickInputs, basisPoints \in BasisPointsInputs,
        tickSpacing \in TickSpacingInputs :
       CalculateBand(currentTick, basisPoints, tickSpacing)
  \/ \E currentTick \in (-MaxBandTick)..MaxBandTick,
        tickLower \in RangeBoundInputs, tickUpper \in RangeBoundInputs :
       IsInRange(currentTick, tickLower, tickUpper)
  \/ \E currentTick \in (-MaxBandTick)..MaxBandTick,
        tickLower \in RangeBoundInputs, tickUpper \in RangeBoundInputs :
       GetOutOfRangeDistance(currentTick, tickLower, tickUpper)

\* ------------------------------------------------------------------------
\* JavaScript numbers
\*
\* A number is a reduced fraction n/d (d > 0), +Infinity or NaN; the model's
\* inputs are chosen so that every double involved is exactly such a fraction.
\* ------------------------------------------------------------------------

RECURSIVE GCD(_, _)
GCD(a, b) == IF b = 0 THEN a ELSE GCD(b, a % b)

Num(n, d) ==
  LET g == GCD(IF n < 0 THEN -n ELSE n, d)
  IN  [kind |-> "finite", n |-> n \div g, d |-> d \div g]

Infinity == [kind |-> "Infinity", n |-> 1, d |-> 0]
NaN == [kind |-> "NaN", n |-> 0, d |-> 0]

\* a + b, for finite non-negative a, b
NumAdd(a, b) ==
  LET den == (a.d \div GCD(a.d, b.d)) * b.d
  IN  Num(a.n * (den \div a.d) + b.n * (den \div b.d), den)

\* a / b, for finite non-negative a, b
NumDiv(a, b) ==
  IF b.n = 0 THEN (IF a.n = 0 THEN NaN ELSE Infinity)
  ELSE Num(a.n * b.d, a.d * b.n)

\* a > b and a >= b; comparisons with NaN are false
NumGt(a, b) ==
  /\ a.kind # "NaN" /\ b.kind # "NaN"
  /\ b.kind # "Infinity"
  /\ a.kind = "Infinity" \/ a.n * b.d > b.n * a.d

NumGeq(a, b) ==
  /\ a.kind # "NaN" /\ b.kind # "NaN"
  /\ \/ a.kind = "Infinity"
     \/ b.kind # "Infinity" /\ a.n * b.d >= b.n * a.d

\* a * b, for finite a, b
NumMul(a, b) == Num(a.n * b.n, a.d * b.d)

\* Number(value) / (10 ** decimals), as the fraction n / d scaled one power
\* of ten at a time.
RECURSIVE NumberOverPowerOfTen(_, _, _)
NumberOverPowerOfTen(n, d, decimals) ==
  IF decimals = 0 THEN Num(n, d)
  ELSE IF decimals > 0
  THEN (IF n % 10 = 0 THEN NumberOverPowerOfTen(n \div 10, d, decimals - 1)
        ELSE NumberOverPowerOfTen(n, d * 10, decimals - 1))
  ELSE (IF d % 10 = 0 THEN NumberOverPowerOfTen(n, d \div 10, decimals + 1)
        ELSE NumberOverPowerOfTen(n * 10, d, decimals + 1))

\* ------------------------------------------------------------------------
\* FeeCalculator.calculateUncollectedFees (static prices)
\* ------------------------------------------------------------------------

\* The default value of the decimals0 / decimals1 parameters.
DefaultDecimals == 6

calculateUncollectedFees(position, decimals0, decimals1) ==
  IF decimals0 < 0 \/ decimals0 > 18 \/ decimals1 < 0 \/ decimals1 > 18
  THEN [ok |-> FALSE, token0 |-> NaN, token1 |-> NaN, totalUsd |-> NaN]
  ELSE LET fees0 == NumberOverPowerOfTen(position.tokensOwed0, 1, decimals0)
           fees1 == NumberOverPowerOfTen(position.tokensOwed1, 1, decimals1)
       IN  [ok |-> TRUE, token0 |-> fees0, token1 |-> fees1,
            totalUsd |-> NumAdd(fees0, fees1)]

\* ------------------------------------------------------------------------
\* PoolMonitor and RebalanceStrategy
\* ------------------------------------------------------------------------

Null == [null |-> TRUE]

\* Milliseconds per hour: the divisor 1000 * 60 * 60 of evaluate.
MsPerHour == 3600000

\* The clock advances in steps of 21 hours, MaxClockSteps times.
ClockStepMs == 21 * MsPerHour
MaxClockSteps == 2

\* Ticks the pool moves between, and the monitored position's range.
PoolTicks == {-11, 3, 10}
PositionTickLower == -10
PositionTickUpper == 10

StrategyConfigs ==
  [bandBasisPoints : {1, 10}, timeCapHours : {24},
   feeGasMultiple : {3}, estimatedGasCostUsd : {0, 2}]

VARIABLES
  config,          \* StrategyConfig handed to the RebalanceStrategy constructor
  chain,           \* on-chain data: the pool's slot0 tick and tick spacing, the position
  now,             \* Date.now()
  running,         \* a scheduled monitoring cycle is under way
  poolState,       \* result of PoolMonitor.getPoolState in this cycle, or Null
  positionState,   \* result of PoolMonitor.getPositionState in this cycle, or Null
  rangeCheckTick,  \* history: the slot0 tick getPositionState compared with the range
  pendingDecision, \* the decision kept by StateManager.savePendingDecision, or Null
  lastRebalance,   \* history: the lastRebalance argument of this cycle's evaluate
  decision         \* outcome of this cycle's RebalanceStrategy.evaluate, or Null

\* A trade moves the pool's tick.
Swap(tick) ==
  /\ tick # chain.tick
  /\ chain' = [chain EXCEPT !.tick = tick]
  /\ UNCHANGED <<config, now, running, poolState, positionState, rangeCheckTick,
                 pendingDecision, lastRebalance, decision>>

ClockTick ==
  /\ now < MaxClockSteps * ClockStepMs
  /\ now' = now + ClockStepMs
  /\ UNCHANGED <<config, chain, running, poolState, positionState, rangeCheckTick,
                 pendingDecision, lastRebalance, decision>>

\* The cron trigger starts a monitoring cycle with fresh locals.
Scheduled ==
  /\ ~running
  /\ running' = TRUE
  /\ poolState' = Null /\ positionState' = Null /\ decision' = Null
  /\ rangeCheckTick' = 0 /\ lastRebalance' = Null
  /\ UNCHANGED <<config, chain, now, pendingDecision>>

GetPoolState ==
  /\ running /\ poolState = Null
  /\ poolState' = [tick |-> chain.tick]
  /\ UNCHANGED <<config, chain, now, running, positionState, rangeCheckTick,
                 pendingDecision, lastRebalance, decision>>

GetPositionState ==
  /\ running /\ positionState = Null
  /\ positionState' =
       [tokenId |-> chain.position.tokenId,
        tickLower |-> chain.position.tickLower,
        tickUpper |-> chain.position.tickUpper,
        tokensOwed0 |-> chain.position.tokensOwed0,
        tokensOwed1 |-> chain.position.tokensOwed1,
        isInRange |-> isInRange(chain.tick, chain.position.tickLower,
                                chain.position.tickUpper)]
  /\ rangeCheckTick' = chain.tick
  /\ UNCHANGED <<config, chain, now, running, poolState, pendingDecision,
                 lastRebalance, decision>>

determineReason_TimeCapFirst(outOfRange, timeCap, economic) ==
  IF timeCap THEN "TIME_CAP_EXCEEDED"
  ELSE IF outOfRange THEN "OUT_OF_RANGE"
  ELSE IF economic THEN "ECONOMIC_TRIGGER"
  ELSE "NONE"

determineReason(outOfRange, timeCap, economic) ==
  IF outOfRange THEN "OUT_OF_RANGE"
  ELSE IF timeCap THEN "TIME_CAP_EXCEEDED"
  ELSE IF economic THEN "ECONOMIC_TRIGGER"
  ELSE "NONE"

calculateUrgency(outOfRange, hoursSince) ==
  IF outOfRange THEN "HIGH"
  ELSE IF NumGt(hoursSince, Num(20, 1)) THEN "MEDIUM"
  ELSE "LOW"

\* hoursSinceRebalance counting from now when there is no lastRebalance.
hoursSinceRebalance_ZeroWhenNone(last, t) ==
  IF last # Null THEN Num(t - last.timestamp, MsPerHour) ELSE Num(0, 1)

\* const hoursSinceRebalance = lastRebalance ? (Date.now() - lastRebalance.timestamp) / (1000 * 60 * 60) : Infinity
hoursSinceRebalance(last, t) ==
  IF last # Null THEN Num(t - last.timestamp, MsPerHour) ELSE Infinity

\* const timeCapExceeded = hoursSinceRebalance > this.config.timeCapHours
timeCapExceeded(hoursSince, timeCapHours) ==
  NumGt(hoursSince, Num(timeCapHours, 1))

\* const profitMultiple = fees.totalUsd / this.config.estimatedGasCostUsd
profitMultiple(totalUsd, estimatedGasCostUsd) ==
  NumDiv(totalUsd, Num(estimatedGasCostUsd, 1))

economicTrigger_Strict(multiple, feeGasMultiple) ==
  NumGt(multiple, Num(feeGasMultiple, 1))

\* const economicTrigger = profitMultiple >= this.config.feeGasMultiple
economicTrigger(multiple, feeGasMultiple) ==
  NumGeq(multiple, Num(feeGasMultiple, 1))

\* RebalanceStrategy.evaluate(pool, position, last) at time t under configuration cfg.
evaluate(cfg, pool, position, last, t) ==
  LET isOutOfRange    == ~position.isInRange
      hoursSince      == hoursSinceRebalance(last, t)
      timeCap         == timeCapExceeded(hoursSince, cfg.timeCapHours)
      fees            == calculateUncollectedFees(position, DefaultDecimals,
                                                  DefaultDecimals)
      multiple        == profitMultiple(fees.totalUsd, cfg.estimatedGasCostUsd)
      economic        == economicTrigger(multiple, cfg.feeGasMultiple)
      shouldRebalance == isOutOfRange \/ timeCap \/ economic
      newRange        == IF shouldRebalance
                         THEN calculateBand(pool.tick, cfg.bandBasisPoints,
                                            DefaultTickSpacing)
                         ELSE Null
  IN  IF shouldRebalance /\ ~newRange.ok
      THEN [ok |-> FALSE, error |-> newRange.error]
      ELSE [ok |-> TRUE,
            shouldRebalance |-> shouldRebalance,
            reason |-> determineReason(isOutOfRange, timeCap, economic),
            urgency |-> calculateUrgency(isOutOfRange, hoursSince),
            positionId |-> position.tokenId,
            currentTick |-> pool.tick,
            positionRange |-> [tickLower |-> position.tickLower,
                               tickUpper |-> position.tickUpper],
            newRange |-> IF shouldRebalance
                         THEN [tickLower |-> newRange.tickLower,
                               tickUpper |-> newRange.tickUpper]
                         ELSE Null,
            fees |-> fees,
            estimatedGasCostUsd |-> cfg.estimatedGasCostUsd,
            profitMultiple |-> multiple,
            timestamp |-> t]

\* The strategy.evaluate call of the scheduled cycle and what the cycle does
\* with its outcome: a recommended decision is saved as pending.
Evaluate(last) ==
  /\ running /\ poolState # Null /\ positionState # Null
  /\ LET d == evaluate(config, poolState, positionState, last, now)
     IN  /\ decision' = d
         /\ pendingDecision' = IF d.ok /\ d.shouldRebalance THEN d ELSE pendingDecision
  /\ lastRebalance' = last
  /\ running' = FALSE
  /\ UNCHANGED <<config, chain, now, poolState, positionState, rangeCheckTick>>

stVars == <<config, chain, now, running, poolState, positionState, rangeCheckTick,
            pendingDecision, lastRebalance, decision>>

\* The configuration of the worker's defaults and an untouched pool and position.
DefaultConfig ==
  [bandBasisPoints |-> 10, timeCapHours |-> 24,
   feeGasMultiple |-> 3, estimatedGasCostUsd |-> 2]

Position(tokensOwed0, tokensOwed1) ==
  [tokenId |-> "1", tickLower |-> PositionTickLower, tickUpper |-> PositionTickUpper,
   tokensOwed0 |-> tokensOwed0, tokensOwed1 |-> tokensOwed1]

StrategyNext ==
  \/ \E tick \in PoolTicks : Swap(tick)
  \/ ClockTick
  \/ Scheduled
  \/ GetPoolState
  \/ GetPositionState
  \/ \E last \in {Null, pendingDecision} : Evaluate(last)

\* ------------------------------------------------------------------------
\* TickMath.getAmount0ForLiquidity / getAmount1ForLiquidity and
\* EnhancedFeeCalculator.getPositionAmounts
\*
\* A result is [ok, value]; ok is FALSE when the bigint division throws a
\* RangeError (division by zero).
\* ------------------------------------------------------------------------

BigOne == BigFromNat(1)

\* getAmount0ForLiquidity dividing by the square of its second argument as passed.
getAmount0ForLiquidity_SecondSquared(sqrtRatioAX96, sqrtRatioBX96, liquidity) ==
  LET lower == IF BigLt(sqrtRatioBX96, sqrtRatioAX96) THEN sqrtRatioBX96 ELSE sqrtRatioAX96
      upper == IF BigLt(sqrtRatioBX96, sqrtRatioAX96) THEN sqrtRatioAX96 ELSE sqrtRatioBX96
      denominator == BigMul(sqrtRatioBX96, sqrtRatioBX96)
  IN  IF denominator = BigZero
      THEN [ok |-> FALSE, value |-> BigZero]
      ELSE [ok |-> TRUE,
            value |-> BigDiv(BigMul(BigMul(liquidity, Q96), BigSub(upper, lower)),
                             denominator)]

getAmount0ForLiquidity(sqrtRatioAX96, sqrtRatioBX96, liquidity) ==
  LET lower == IF BigLt(sqrtRatioBX96, sqrtRatioAX96) THEN sqrtRatioBX96 ELSE sqrtRatioAX96
      upper == IF BigLt(sqrtRatioBX96, sqrtRatioAX96) THEN sqrtRatioAX96 ELSE sqrtRatioBX96
      denominator == BigMul(upper, lower)
  IN  IF denominator = BigZero
      THEN [ok |-> FALSE, value |-> BigZero]
      ELSE [ok |-> TRUE,
            value |-> BigDiv(BigMul(BigMul(liquidity, Q96), BigSub(upper, lower)),
                             denominator)]

getAmount1ForLiquidity(sqrtRatioAX96, sqrtRatioBX96, liquidity) ==
  LET lower == IF BigLt(sqrtRatioBX96, sqrtRatioAX96) THEN sqrtRatioBX96 ELSE sqrtRatioAX96
      upper == IF BigLt(sqrtRatioBX96, sqrtRatioAX96) THEN sqrtRatioAX96 ELSE sqrtRatioBX96
  IN  [ok |-> TRUE, value |-> BigDiv(BigMul(liquidity, BigSub(upper, lower)), Q96)]

\* getPositionAmounts with the two one-sided cases exchanged.
getPositionAmounts_SidesExchanged(liquidity, sqrtPriceX96, sqrtPriceLowerX96, sqrtPriceUpperX96) ==
  IF BigLeq(sqrtPriceX96, sqrtPriceLowerX96)
  THEN [ok |-> TRUE, amount0 |-> BigZero,
        amount1 |-> getAmount1ForLiquidity(sqrtPriceLowerX96, sqrtPriceUpperX96, liquidity).value]
  ELSE IF BigLeq(sqrtPriceUpperX96, sqrtPriceX96)
  THEN LET a0 == getAmount0ForLiquidity(sqrtPriceLowerX96, sqrtPriceUpperX96, liquidity)
       IN  [ok |-> a0.ok, amount0 |-> a0.value, amount1 |-> BigZero]
  ELSE LET a0 == getAmount0ForLiquidity(sqrtPriceX96, sqrtPriceUpperX96, liquidity)
       IN  [ok |-> a0.ok, amount0 |-> a0.value,
            amount1 |-> getAmount1ForLiquidity(sqrtPriceLowerX96, sqrtPriceX96, liquidity).value]

getPositionAmounts(liquidity, sqrtPriceX96, sqrtPriceLowerX96, sqrtPriceUpperX96) ==
  IF BigLeq(sqrtPriceX96, sqrtPriceLowerX96)
  THEN LET a0 == getAmount0ForLiquidity(sqrtPriceLowerX96, sqrtPriceUpperX96, liquidity)
       IN  [ok |-> a0.ok, amount0 |-> a0.value, amount1 |-> BigZero]
  ELSE IF BigLeq(sqrtPriceUpperX96, sqrtPriceX96)
  THEN [ok |-> TRUE, amount0 |-> BigZero,
        amount1 |-> getAmount1ForLiquidity(sqrtPriceLowerX96, sqrtPriceUpperX96, liquidity).value]
  ELSE LET a0 == getAmount0ForLiquidity(sqrtPriceX96, sqrtPriceUpperX96, liquidity)
       IN  [ok |-> a0.ok, amount0 |-> a0.value,
            amount1 |-> getAmount1ForLiquidity(sqrtPriceLowerX96, sqrtPriceX96, liquidity).value]

\* ------------------------------------------------------------------------
\* EnhancedFeeCalculator.calculateConcentratedImpermanentLoss
\*
\* The numbers of this function are kept as exact non-negative fractions
\* [n, d] of bigints (d > 0), not reduced; the rounding of a double is not
\* modelled.  The percentage is a signed fraction [sign, n, d].
\* ------------------------------------------------------------------------

\* Number(b) for a bigint b
NumberOfBig(b) == [n |-> b, d |-> BigOne]

\* The number of zero limbs at the least significant end of b.
LowZeroLimbs(b) ==
  CHOOSE k \in 0..Len(b) :
    /\ \A i \in 1..k : b[i] = 0
    /\ k = Len(b) \/ b[k + 1] # 0

\* The fraction n / d with the powers of 256 common to n and d cancelled.
Rat(n, d) ==
  LET k == IF Len(n) = 0 THEN LowZeroLimbs(d) ELSE Min(LowZeroLimbs(n), LowZeroLimbs(d))
  IN  [n |-> SubSeq(n, k + 1, Len(n)), d |-> SubSeq(d, k + 1, Len(d))]

RatAdd(a, b) ==
  Rat(BigAdd(BigMul(a.n, b.d), BigMul(b.n, a.d)), BigMul(a.d, b.d))

RatMul(a, b) == Rat(BigMul(a.n, b.n), BigMul(a.d, b.d))

\* a / b for b > 0
RatDiv(a, b) == Rat(BigMul(a.n, b.d), BigMul(a.d, b.n))

RatZero == [sign |-> 0, n |-> BigZero, d |-> BigOne]

\* sqrtPriceX96ToPrice: (Number(sqrtPriceX96) / Number(2n ** 96n)) squared
sqrtPriceX96ToPrice(sqrtPriceX96) ==
  LET sqrtPrice == RatDiv(NumberOfBig(sqrtPriceX96), NumberOfBig(BigPow2(96)))
  IN  RatMul(sqrtPrice, sqrtPrice)

\* The percentage computed as (currentValue / holdValue) * 100, without the - 1.
impermanentLossPercent_NoMinusOne(currentValue, holdValue) ==
  IF holdValue.n = BigZero
  THEN RatZero
  ELSE LET ratio == RatDiv(currentValue, holdValue)
       IN  [sign |-> IF ratio.n = BigZero THEN 0 ELSE 1,
            n |-> BigMul(ratio.n, BigFromNat(100)), d |-> ratio.d]

\* holdValue > 0 ? ((currentValue / holdValue) - 1) * 100 : 0
impermanentLossPercent(currentValue, holdValue) ==
  IF holdValue.n = BigZero
  THEN RatZero
  ELSE LET ratio == RatDiv(currentValue, holdValue)
           cmp   == BigCmp(ratio.n, ratio.d)
       IN  [sign |-> cmp,
            n |-> BigMul(IF cmp < 0 THEN BigSub(ratio.d, ratio.n)
                         ELSE BigSub(ratio.n, ratio.d), BigFromNat(100)),
            d |-> ratio.d]

\* calculateConcentratedImpermanentLoss on cache c: the outcome and the cache
\* afterwards (the two bounds go through getSqrtPriceX96FromTick).
calculateConcentratedImpermanentLoss(c, position, initialSqrtPriceX96, currentSqrtPriceX96) ==
  LET sqrtPriceLowerX96 == getSqrtPriceX96FromTick(c, position.tickLower)
      sqrtPriceUpperX96 == getSqrtPriceX96FromTick(sqrtPriceLowerX96.cache, position.tickUpper)
      failed(cache) == [ok |-> FALSE, cache |-> cache,
                        impermanentLossPercent |-> RatZero,
                        token0Amount |-> BigZero, token1Amount |-> BigZero,
                        initialValue |-> NumberOfBig(BigZero),
                        holdValue |-> NumberOfBig(BigZero),
                        currentValue |-> NumberOfBig(BigZero)]
  IN  IF ~sqrtPriceLowerX96.ok THEN failed(sqrtPriceLowerX96.cache)
      ELSE IF ~sqrtPriceUpperX96.ok THEN failed(sqrtPriceUpperX96.cache)
      ELSE
        LET initialAmounts == getPositionAmounts(position.liquidity, initialSqrtPriceX96,
                                sqrtPriceLowerX96.value, sqrtPriceUpperX96.value)
            currentAmounts == getPositionAmounts(position.liquidity, currentSqrtPriceX96,
                                sqrtPriceLowerX96.value, sqrtPriceUpperX96.value)
            initialPrice   == sqrtPriceX96ToPrice(initialSqrtPriceX96)
            initialValue   == RatAdd(NumberOfBig(initialAmounts.amount0),
                                     RatMul(NumberOfBig(initialAmounts.amount1), initialPrice))
            currentPrice   == sqrtPriceX96ToPrice(currentSqrtPriceX96)
            holdValue      == RatAdd(NumberOfBig(initialAmounts.amount0),
                                     RatMul(NumberOfBig(initialAmounts.amount1), currentPrice))
            currentValue   == RatAdd(NumberOfBig(currentAmounts.amount0),
                                     RatMul(NumberOfBig(currentAmounts.amount1), currentPrice))
        IN  IF ~initialAmounts.ok \/ ~currentAmounts.ok
            THEN failed(sqrtPriceUpperX96.cache)
            ELSE [ok |-> TRUE, cache |-> sqrtPriceUpperX96.cache,
                  impermanentLossPercent |-> impermanentLossPercent(currentValue, holdValue),
                  token0Amount |-> currentAmounts.amount0,
                  token1Amount |-> currentAmounts.amount1,
                  initialValue |-> initialValue,
                  holdValue |-> holdValue,
                  currentValue |-> currentValue]

\* ------------------------------------------------------------------------
\* Calls of the liquidity-amount functions: a call is drawn when the state is
\* set up and made once
\* ------------------------------------------------------------------------

VARIABLE amCall   \* the call of an amount function: its arguments, then its outcome

amVars == <<amCall>>

NoAmountCall == [op |-> "none", done |-> TRUE]

\* Liquidity values: none, the 10^9 of the test positions, 10^18.
LiquidityInputs ==
  {BigZero, BigFromNat(1000000000),
   BigMul(BigFromNat(1000000000), BigFromNat(1000000000))}

\* sqrt prices: 0, 1, the forward function's value on odd positive ticks,
\* and values around 2^96.
AmountSqrtInputs ==
  {BigZero, BigOne, BigFromNat(1350520), BigPow2(95), BigSub(Q96, BigOne), Q96,
   BigPow2(97)}

ImpermanentLossSqrtInputs == {BigOne, BigPow2(94), BigPow2(95), Q96, BigPow2(97)}

\* Position ranges [tickLower, tickUpper] of the impermanent-loss calls.
PositionRanges == {<<-2, 2>>, <<1, 2>>, <<0, 1>>, <<MIN_TICK - 1, 2>>}

AmountCalls ==
  [op : {"getAmount0ForLiquidity", "getAmount1ForLiquidity"}, done : {FALSE},
   sqrtRatioAX96 : AmountSqrtInputs, sqrtRatioBX96 : AmountSqrtInputs,
   liquidity : LiquidityInputs, result : {Null}]
  \cup
  [op : {"getPositionAmounts"}, done : {FALSE}, liquidity : LiquidityInputs,
   sqrtPriceX96 : AmountSqrtInputs,
   sqrtPriceLowerX96 : {BigFromNat(1350520), BigSub(Q96, BigOne)},
   sqrtPriceUpperX96 : {Q96}, result : {Null}]
  \cup
  {[op |-> "calculateConcentratedImpermanentLoss", done |-> FALSE,
    position |-> [tickLower |-> r[1], tickUpper |-> r[2], liquidity |-> l],
    initialSqrtPriceX96 |-> i, currentSqrtPriceX96 |-> c, result |-> Null] :
     r \in PositionRanges, l \in LiquidityInputs,
     i \in ImpermanentLossSqrtInputs, c \in ImpermanentLossSqrtInputs}

GetAmount0ForLiquidity ==
  /\ amCall.op = "getAmount0ForLiquidity" /\ ~amCall.done
  /\ amCall' = [amCall EXCEPT
                  !.done = TRUE,
                  !.result = getAmount0ForLiquidity(amCall.sqrtRatioAX96,
                               amCall.sqrtRatioBX96, amCall.liquidity)]
  /\ UNCHANGED SQRT_PRICE_CACHE

GetAmount1ForLiquidity ==
  /\ amCall.op = "getAmount1ForLiquidity" /\ ~amCall.done
  /\ amCall' = [amCall EXCEPT
                  !.done = TRUE,
                  !.result = getAmount1ForLiquidity(amCall.sqrtRatioAX96,
                               amCall.sqrtRatioBX96, amCall.liquidity)]
  /\ UNCHANGED SQRT_PRICE_CACHE

GetPositionAmounts ==
  /\ amCall.op = "getPositionAmounts" /\ ~amCall.done
  /\ amCall' = [amCall EXCEPT
                  !.done = TRUE,
                  !.result = getPositionAmounts(amCall.liquidity, amCall.sqrtPriceX96,
                               amCall.sqrtPriceLowerX96, amCall.sqrtPriceUpperX96)]
  /\ UNCHANGED SQRT_PRICE_CACHE

CalculateConcentratedImpermanentLoss ==
  /\ amCall.op = "calculateConcentratedImpermanentLoss" /\ ~amCall.done
  /\ amCall' = [amCall EXCEPT
                  !.done = TRUE,
                  !.result = calculateConcentratedImpermanentLoss(SQRT_PRICE_CACHE,
                               amCall.position, amCall.initialSqrtPriceX96,
                               amCall.currentSqrtPriceX96)]
  /\ SQRT_PRICE_CACHE' = amCall'.result.cache

AmountsNext ==
  \/ GetAmount0ForLiquidity
  \/ GetAmount1ForLiquidity
  \/ GetPositionAmounts
  \/ CalculateConcentratedImpermanentLoss

\* ------------------------------------------------------------------------
\* PriceOracle, EnhancedFeeCalculator and FeeCalculator.calculateRebalanceThreshold
\* ------------------------------------------------------------------------

\* Token addresses: the stablecoins of createStablecoinOracle, and the WETH
\* address shouldRebalance asks the gas price for.
USDC == "0xA0b86991c6218b36c1d19D4a2e9Eb0cE3606eB48"
USDT == "0xdAC17F958D2ee523a2206206994597C13D831ec7"
WETH == "0xC02aaA39b223FE8D0A0e5C4F27eAD9083C756Cc2"

\* The default of PriceOracleConfig.cacheTimeMs.
DefaultCacheTimeMs == 60000

VARIABLES
  oracleConfig,  \* PriceOracle.config
  priceCache,    \* PriceOracle.priceCache: token -> TokenPrice
  feeCall        \* the last fee-calculator call: operation, arguments, outcome

feVars == <<oracleConfig, priceCache, feeCall>>

NoFeeCall == [op |-> "none"]

\* fetchChainlinkPrice and fetchUniswapTWAP: both always throw.
fetchChainlinkPrice(tokenAddress) == [ok |-> FALSE, price |-> NaN]
fetchUniswapTWAP(tokenAddress) == [ok |-> FALSE, price |-> NaN]

\* cachePrice: the cache with the price of the token set
cachePrice(cache, token, priceUsd, source, timestamp) ==
  (token :> [token |-> token, priceUsd |-> priceUsd,
             timestamp |-> timestamp, source |-> source]) @@ cache

\* JavaScript truthiness of a number
Truthy(x) == x.kind = "Infinity" \/ (x.kind = "finite" /\ x.n # 0)

\* The static fallback of getTokenPrice (lines 64..71).
staticPrice(cache, cfg, tokenAddress, timestamp) ==
  IF tokenAddress \in DOMAIN cfg.staticPrices /\ Truthy(cfg.staticPrices[tokenAddress])
  THEN [ok |-> TRUE, price |-> cfg.staticPrices[tokenAddress],
        cache |-> cachePrice(cache, tokenAddress, cfg.staticPrices[tokenAddress],
                             "static", timestamp)]
  ELSE [ok |-> FALSE, price |-> NaN, cache |-> cache]

\* The Uniswap TWAP step of getTokenPrice and what follows it (lines 53..71).
uniswapPrice(cache, cfg, tokenAddress, timestamp) ==
  IF tokenAddress \in cfg.uniswapPools /\ fetchUniswapTWAP(tokenAddress).ok
  THEN [ok |-> TRUE, price |-> fetchUniswapTWAP(tokenAddress).price,
        cache |-> cachePrice(cache, tokenAddress, fetchUniswapTWAP(tokenAddress).price,
                             "uniswap-twap", timestamp)]
  ELSE staticPrice(cache, cfg, tokenAddress, timestamp)

\* getTokenPrice answering a failed lookup with the price 0, as getTokenPrices does.
getTokenPrice_ZeroOnFailure(cache, cfg, tokenAddress, timestamp) ==
  IF /\ tokenAddress \in DOMAIN cache
     /\ timestamp - cache[tokenAddress].timestamp < cfg.cacheTimeMs
  THEN [ok |-> TRUE, price |-> cache[tokenAddress].priceUsd, cache |-> cache]
  ELSE IF tokenAddress \in cfg.chainlinkFeeds /\ fetchChainlinkPrice(tokenAddress).ok
  THEN [ok |-> TRUE, price |-> fetchChainlinkPrice(tokenAddress).price,
        cache |-> cachePrice(cache, tokenAddress, fetchChainlinkPrice(tokenAddress).price,
                             "chainlink", timestamp)]
  ELSE IF uniswapPrice(cache, cfg, tokenAddress, timestamp).ok
  THEN uniswapPrice(cache, cfg, tokenAddress, timestamp)
  ELSE [ok |-> TRUE, price |-> Num(0, 1), cache |-> cache]

\* getTokenPrice at time timestamp: the outcome and the cache afterwards.
getTokenPrice(cache, cfg, tokenAddress, timestamp) ==
  IF /\ tokenAddress \in DOMAIN cache
     /\ timestamp - cache[tokenAddress].timestamp < cfg.cacheTimeMs
  THEN [ok |-> TRUE, price |-> cache[tokenAddress].priceUsd, cache |-> cache]
  ELSE IF tokenAddress \in cfg.chainlinkFeeds /\ fetchChainlinkPrice(tokenAddress).ok
  THEN [ok |-> TRUE, price |-> fetchChainlinkPrice(tokenAddress).price,
        cache |-> cachePrice(cache, tokenAddress, fetchChainlinkPrice(tokenAddress).price,
                             "chainlink", timestamp)]
  ELSE uniswapPrice(cache, cfg, tokenAddress, timestamp)

\* EnhancedFeeCalculator.calculateUncollectedFees: the outcome, the two price
\* lookups it made and the price cache afterwards.  Both lookups are started
\* by Promise.all, whatever the other one's outcome.
EnhancedFeeCalculator_calculateUncollectedFees(cache, cfg, position, poolInfo, timestamp) ==
  LET fees0  == NumberOverPowerOfTen(position.tokensOwed0, 1, poolInfo.decimals0)
      fees1  == NumberOverPowerOfTen(position.tokensOwed1, 1, poolInfo.decimals1)
      price0 == getTokenPrice(cache, cfg, poolInfo.token0, timestamp)
      price1 == getTokenPrice(price0.cache, cfg, poolInfo.token1, timestamp)
  IN  IF price0.ok /\ price1.ok
      THEN [ok |-> TRUE, cache |-> price1.cache,
            price0 |-> [ok |-> TRUE, price |-> price0.price],
            price1 |-> [ok |-> TRUE, price |-> price1.price],
            token0 |-> fees0, token1 |-> fees1,
            token0Usd |-> NumMul(fees0, price0.price),
            token1Usd |-> NumMul(fees1, price1.price),
            totalUsd |-> NumAdd(NumMul(fees0, price0.price), NumMul(fees1, price1.price))]
      ELSE [ok |-> FALSE, cache |-> price1.cache,
            price0 |-> [ok |-> price0.ok, price |-> price0.price],
            price1 |-> [ok |-> price1.ok, price |-> price1.price],
            token0 |-> NaN, token1 |-> NaN, token0Usd |-> NaN, token1Usd |-> NaN,
            totalUsd |-> NaN]

\* Math.abs(percent) > 5, for an impermanentLossPercent
AbsGreaterThanFive(percent) ==
  percent.sign # 0 /\ BigLt(BigMul(BigFromNat(5), percent.d), percent.n)

\* a < b; comparisons with NaN are false
NumLt(a, b) == NumGt(b, a)

\* The decision logic with a first branch that does not ask whether the
\* position is out of range.
rebalanceDecision_IgnoresRange(position, poolInfo, dailyFeesUsd, gasCostUsd, il) ==
  LET daysToBreakeven == IF NumGt(dailyFeesUsd, Num(0, 1))
                         THEN NumDiv(gasCostUsd, dailyFeesUsd) ELSE Infinity
      isOutOfRange    == \/ poolInfo.currentTick < position.tickLower
                         \/ poolInfo.currentTick >= position.tickUpper
      metrics         == [dailyFeesUsd |-> dailyFeesUsd, gasCostUsd |-> gasCostUsd,
                          daysToBreakeven |-> daysToBreakeven, currentIL |-> il]
  IN  IF NumLt(daysToBreakeven, Num(3, 1))
      THEN [shouldRebalance |-> TRUE, metrics |-> metrics,
            reason |-> "Position out of range and gas cost recoverable in < 3 days"]
      ELSE IF AbsGreaterThanFive(il) /\ NumLt(daysToBreakeven, Num(7, 1))
      THEN [shouldRebalance |-> TRUE, metrics |-> metrics,
            reason |-> "High impermanent loss (>5%) and reasonable gas costs"]
      ELSE IF isOutOfRange
      THEN [shouldRebalance |-> FALSE, metrics |-> metrics,
            reason |-> "Out of range but gas costs too high relative to fees"]
      ELSE [shouldRebalance |-> FALSE, metrics |-> metrics,
            reason |-> "In range and IL acceptable"]

\* The decision logic of shouldRebalance (lines 223..253).
rebalanceDecision(position, poolInfo, dailyFeesUsd, gasCostUsd, il) ==
  LET daysToBreakeven == IF NumGt(dailyFeesUsd, Num(0, 1))
                         THEN NumDiv(gasCostUsd, dailyFeesUsd) ELSE Infinity
      isOutOfRange    == \/ poolInfo.currentTick < position.tickLower
                         \/ poolInfo.currentTick >= position.tickUpper
      metrics         == [dailyFeesUsd |-> dailyFeesUsd, gasCostUsd |-> gasCostUsd,
                          daysToBreakeven |-> daysToBreakeven, currentIL |-> il]
  IN  IF isOutOfRange /\ NumLt(daysToBreakeven, Num(3, 1))
      THEN [shouldRebalance |-> TRUE, metrics |-> metrics,
            reason |-> "Position out of range and gas cost recoverable in < 3 days"]
      ELSE IF AbsGreaterThanFive(il) /\ NumLt(daysToBreakeven, Num(7, 1))
      THEN [shouldRebalance |-> TRUE, metrics |-> metrics,
            reason |-> "High impermanent loss (>5%) and reasonable gas costs"]
      ELSE IF isOutOfRange
      THEN [shouldRebalance |-> FALSE, metrics |-> metrics,
            reason |-> "Out of range but gas costs too high relative to fees"]
      ELSE [shouldRebalance |-> FALSE, metrics |-> metrics,
            reason |-> "In range and IL acceptable"]

\* gwei to ETH: the factor 1e-9 of shouldRebalance
GweiToEth == Num(1, 1000000000)

\* The outcome of shouldRebalance from the outcomes of its three steps: the
\* fee calculation, the WETH price lookup and the impermanent-loss calculation,
\* each of which ends the evaluation when it fails.
shouldRebalanceOutcome(fees, ethPrice, il, sqrtCache, position, poolInfo, estimatedGasUnits, gasPriceGwei) ==
  IF ~fees.ok
  THEN [ok |-> FALSE, cache |-> fees.cache, sqrtCache |-> sqrtCache, fees |-> fees,
        decision |-> Null]
  ELSE IF ~ethPrice.ok
  THEN [ok |-> FALSE, cache |-> ethPrice.cache, sqrtCache |-> sqrtCache, fees |-> fees,
        decision |-> Null]
  ELSE IF ~il.ok
  THEN [ok |-> FALSE, cache |-> ethPrice.cache, sqrtCache |-> il.cache, fees |-> fees,
        decision |-> Null]
  ELSE [ok |-> TRUE, cache |-> ethPrice.cache, sqrtCache |-> il.cache, fees |-> fees,
        decision |->
          rebalanceDecision(position, poolInfo, fees.totalUsd,
            NumMul(NumMul(Num(estimatedGasUnits, 1), NumMul(Num(gasPriceGwei, 1), GweiToEth)),
                   ethPrice.price),
            il.impermanentLossPercent)]

\* EnhancedFeeCalculator.shouldRebalance: the outcome, the fee calculation it
\* made, and the price cache and the sqrt-price cache afterwards.
EnhancedFeeCalculator_shouldRebalance(cache, sqrtCache, cfg, position, poolInfo, estimatedGasUnits, gasPriceGwei, timestamp) ==
  LET fees == EnhancedFeeCalculator_calculateUncollectedFees(cache, cfg, position,
                                                            poolInfo, timestamp)
  IN  shouldRebalanceOutcome(
        fees,
        getTokenPrice(fees.cache, cfg, WETH, timestamp),
        calculateConcentratedImpermanentLoss(sqrtCache, position,
          poolInfo.sqrtPriceX96, poolInfo.sqrtPriceX96),
        sqrtCache, position, poolInfo, estimatedGasUnits, gasPriceGwei)

\* The default value of the thresholdMultiplier parameter.
DefaultThresholdMultiplier == 3

\* calculateRebalanceThreshold deciding by daysToBreakeven < thresholdMultiplier.
calculateRebalanceThreshold_Strict(estimatedGasCost, dailyFees, thresholdMultiplier) ==
  IF estimatedGasCost.n < 0 \/ dailyFees.n < 0 \/ thresholdMultiplier.n <= 0
  THEN [ok |-> FALSE, shouldRebalance |-> FALSE, daysToBreakeven |-> NaN]
  ELSE IF dailyFees.n = 0
  THEN [ok |-> TRUE, shouldRebalance |-> FALSE, daysToBreakeven |-> Infinity]
  ELSE [ok |-> TRUE,
        shouldRebalance |-> NumLt(NumDiv(estimatedGasCost, dailyFees), thresholdMultiplier),
        daysToBreakeven |-> NumDiv(estimatedGasCost, dailyFees)]

\* FeeCalculator.calculateRebalanceThreshold, for finite arguments
calculateRebalanceThreshold(estimatedGasCost, dailyFees, thresholdMultiplier) ==
  IF estimatedGasCost.n < 0 \/ dailyFees.n < 0 \/ thresholdMultiplier.n <= 0
  THEN [ok |-> FALSE, shouldRebalance |-> FALSE, daysToBreakeven |-> NaN]
  ELSE IF dailyFees.n = 0
  THEN [ok |-> TRUE, shouldRebalance |-> FALSE, daysToBreakeven |-> Infinity]
  ELSE [ok |-> TRUE,
        shouldRebalance |-> NumGeq(thresholdMultiplier, NumDiv(estimatedGasCost, dailyFees)),
        daysToBreakeven |-> NumDiv(estimatedGasCost, dailyFees)]

\* ------------------------------------------------------------------------
\* Calls of the fee calculators
\* ------------------------------------------------------------------------

\* Oracle configurations: static prices for none, some or all of the three
\* tokens (one of them 0), with and without feeds for the first two sources.
StaticPriceInputs ==
  {<< >>,
   (USDC :> Num(1, 1)) @@ (USDT :> Num(1, 1)),
   (USDC :> Num(1, 1)) @@ (USDT :> Num(1, 1)) @@ (WETH :> Num(2000, 1)),
   (USDC :> Num(1, 1)) @@ (WETH :> Num(2000, 1)),
   (USDT :> Num(1, 1)) @@ (WETH :> Num(2000, 1)),
   (USDC :> Num(1, 1)) @@ (USDT :> Num(0, 1)) @@ (WETH :> Num(2000, 1))}

OracleConfigs ==
  {[chainlinkFeeds |-> feeds[1], uniswapPools |-> feeds[2],
    staticPrices |-> staticPrices, cacheTimeMs |-> DefaultCacheTimeMs] :
     feeds \in {<<{}, {}>>, <<{USDC}, {USDC, USDT}>>},
     staticPrices \in StaticPriceInputs}

\* A token's owed amount with its declared decimals: in-range decimals, and
\* the decimals -1 and 19 just outside [0, 18].
OwedAndDecimalsInputs ==
  {<<6000000, 6>>, <<0, 18>>, <<6000000, -1>>, <<0, 19>>}

FeePosition(tickLower, tickUpper, tokensOwed0, tokensOwed1) ==
  [tickLower |-> tickLower, tickUpper |-> tickUpper,
   liquidity |-> BigPow2(100),
   tokensOwed0 |-> tokensOwed0, tokensOwed1 |-> tokensOwed1]

PoolInfo(decimals0, decimals1, currentTick) ==
  [token0 |-> USDC, token1 |-> USDT, decimals0 |-> decimals0, decimals1 |-> decimals1,
   currentTick |-> currentTick, sqrtPriceX96 |-> Q96]

\* Position ranges and pool ticks of the shouldRebalance calls: a tick
\* inside the range, and the tick of its upper bound.
FeePositionRanges == {<<-2, 2>>}
FeePoolTicks == {0, 2}

\* Gas: 150000 units at 20 or 100 gwei.
GasUnitsInputs == {150000}
GasPriceGweiInputs == {20, 100}

\* Arguments of calculateRebalanceThreshold.
GasCostInputs == {Num(-1, 1), Num(0, 1), Num(30, 1), Num(45, 1), Num(60, 1)}
DailyFeesInputs == {Num(-1, 1), Num(0, 1), Num(1, 2), Num(10, 1), Num(20, 1)}
MultiplierInputs ==
  {Num(-1, 1), Num(0, 1), Num(3, 2), Num(DefaultThresholdMultiplier, 1), Num(7, 1)}

FeeCalculatorCalculateUncollectedFees(owed0, owed1) ==
  /\ feeCall' = [op |-> "FeeCalculator.calculateUncollectedFees",
                 position |-> FeePosition(-2, 2, owed0[1], owed1[1]),
                 decimals0 |-> owed0[2], decimals1 |-> owed1[2],
                 result |-> calculateUncollectedFees(
                              FeePosition(-2, 2, owed0[1], owed1[1]), owed0[2], owed1[2])]
  /\ UNCHANGED <<oracleConfig, priceCache, SQRT_PRICE_CACHE, now>>

EnhancedCalculateUncollectedFees(owed0, owed1) ==
  /\ feeCall' = [op |-> "EnhancedFeeCalculator.calculateUncollectedFees",
                 position |-> FeePosition(-2, 2, owed0[1], owed1[1]),
                 poolInfo |-> PoolInfo(owed0[2], owed1[2], 0),
                 result |-> EnhancedFeeCalculator_calculateUncollectedFees(
                              priceCache, oracleConfig,
                              FeePosition(-2, 2, owed0[1], owed1[1]),
                              PoolInfo(owed0[2], owed1[2], 0), now)]
  /\ priceCache' = feeCall'.result.cache
  /\ UNCHANGED <<oracleConfig, SQRT_PRICE_CACHE, now>>

EnhancedShouldRebalance(range, tokensOwed0, currentTick, estimatedGasUnits, gasPriceGwei) ==
  /\ feeCall' = [op |-> "EnhancedFeeCalculator.shouldRebalance",
                 position |-> FeePosition(range[1], range[2], tokensOwed0, 0),
                 poolInfo |-> PoolInfo(DefaultDecimals, DefaultDecimals, currentTick),
                 estimatedGasUnits |-> estimatedGasUnits, gasPriceGwei |-> gasPriceGwei,
                 result |-> EnhancedFeeCalculator_shouldRebalance(
                              priceCache, SQRT_PRICE_CACHE, oracleConfig,
                              FeePosition(range[1], range[2], tokensOwed0, 0),
                              PoolInfo(DefaultDecimals, DefaultDecimals, currentTick),
                              estimatedGasUnits, gasPriceGwei, now)]
  /\ priceCache' = feeCall'.result.cache
  /\ SQRT_PRICE_CACHE' = feeCall'.result.sqrtCache
  /\ UNCHANGED <<oracleConfig, now>>

CalculateRebalanceThreshold(estimatedGasCost, dailyFees, thresholdMultiplier) ==
  /\ feeCall' = [op |-> "calculateRebalanceThreshold",
                 estimatedGasCost |-> estimatedGasCost, dailyFees |-> dailyFees,
                 thresholdMultiplier |-> thresholdMultiplier,
                 result |-> calculateRebalanceThreshold(estimatedGasCost, dailyFees,
                                                        thresholdMultiplier)]
  /\ UNCHANGED <<oracleConfig, priceCache, SQRT_PRICE_CACHE, now>>

FeesNext ==
  \/ \E owed0 \in OwedAndDecimalsInputs, owed1 \in OwedAndDecimalsInputs :
       FeeCalculatorCalculateUncollectedFees(owed0, owed1)
  \/ \E owed0 \in OwedAndDecimalsInputs, owed1 \in OwedAndDecimalsInputs :
       EnhancedCalculateUncollectedFees(owed0, owed1)
  \/ \E range \in FeePositionRanges, tokensOwed0 \in {0, 6000000},
        currentTick \in FeePoolTicks, estimatedGasUnits \in GasUnitsInputs,
        gasPriceGwei \in GasPriceGweiInputs :
       EnhancedShouldRebalance(range, tokensOwed0, currentTick, estimatedGasUnits,
                               gasPriceGwei)
  \/ ClockTick /\ UNCHANGED <<feVars, SQRT_PRICE_CACHE>>

ThresholdNext ==
  \E estimatedGasCost \in GasCostInputs, dailyFees \in DailyFeesInputs,
     thresholdMultiplier \in MultiplierInputs :
    CalculateRebalanceThreshold(estimatedGasCost, dailyFees, thresholdMultiplier)

\* ------------------------------------------------------------------------
\* contracts/helpers getPositionState and the fee-growth functions of
\* contracts/utils it calls
\* ------------------------------------------------------------------------

\* A bigint with its sign: the magnitude and whether the value is negative.
Signed(neg, mag) == [neg |-> neg /\ mag # BigZero, mag |-> mag]

SZero == Signed(FALSE, BigZero)

SNeg(a) == Signed(~a.neg, a.mag)

SAdd(a, b) ==
  IF a.neg = b.neg THEN Signed(a.neg, BigAdd(a.mag, b.mag))
  ELSE IF BigLeq(b.mag, a.mag) THEN Signed(a.neg, BigSub(a.mag, b.mag))
  ELSE Signed(b.neg, BigSub(b.mag, a.mag))

SSub(a, b) == SAdd(a, SNeg(b))

SMul(a, b) == Signed(a.neg # b.neg, BigMul(a.mag, b.mag))

\* a / b on bigints: the quotient is truncated towards zero
SDiv(a, b) == Signed(a.neg # b.neg, BigDiv(a.mag, b.mag))

isPositionInRange(currentTick, tickLower, tickUpper) ==
  currentTick >= tickLower /\ currentTick < tickUpper

utils_calculateUncollectedFees(liquidity, feeGrowthInside0LastX128, feeGrowthInside1LastX128, feeGrowthInside0X128, feeGrowthInside1X128) ==
  [fees0 |-> SDiv(SMul(liquidity, SSub(feeGrowthInside0X128, feeGrowthInside0LastX128)),
                  Signed(FALSE, Q128)),
   fees1 |-> SDiv(SMul(liquidity, SSub(feeGrowthInside1X128, feeGrowthInside1LastX128)),
                  Signed(FALSE, Q128))]

getFeeGrowthInside(tickLower, tickUpper, tickCurrent, feeGrowthGlobal0X128, feeGrowthGlobal1X128, feeGrowthOutsideLower0X128, feeGrowthOutsideLower1X128, feeGrowthOutsideUpper0X128, feeGrowthOutsideUpper1X128) ==
  LET feeGrowthBelow0X128 ==
        IF tickCurrent >= tickLower THEN feeGrowthOutsideLower0X128
        ELSE SSub(feeGrowthGlobal0X128, feeGrowthOutsideLower0X128)
      feeGrowthBelow1X128 ==
        IF tickCurrent >= tickLower THEN feeGrowthOutsideLower1X128
        ELSE SSub(feeGrowthGlobal1X128, feeGrowthOutsideLower1X128)
      feeGrowthAbove0X128 ==
        IF tickCurrent < tickUpper THEN feeGrowthOutsideUpper0X128
        ELSE SSub(feeGrowthGlobal0X128, feeGrowthOutsideUpper0X128)
      feeGrowthAbove1X128 ==
        IF tickCurrent < tickUpper THEN feeGrowthOutsideUpper1X128
        ELSE SSub(feeGrowthGlobal1X128, feeGrowthOutsideUpper1X128)
  IN  [feeGrowthInside0X128 |->
         SSub(SSub(feeGrowthGlobal0X128, feeGrowthBelow0X128), feeGrowthAbove0X128),
       feeGrowthInside1X128 |->
         SSub(SSub(feeGrowthGlobal1X128, feeGrowthBelow1X128), feeGrowthAbove1X128)]

\* getPositionState on the position and the pool state read from the chain;
\* getFeeGrowthInside is called without the feeGrowthOutside arguments, which
\* default to 0n.
feesEarned(position, pool, inside) ==
  LET fees == utils_calculateUncollectedFees(
                position.liquidity, position.feeGrowthInside0LastX128,
                position.feeGrowthInside1LastX128, inside.feeGrowthInside0X128,
                inside.feeGrowthInside1X128)
  IN  [position |-> position, pool |-> pool,
       inRange |-> isPositionInRange(pool.slot0.tick, position.tickLower,
                                     position.tickUpper),
       feesEarned0 |-> SAdd(position.tokensOwed0, fees.fees0),
       feesEarned1 |-> SAdd(position.tokensOwed1, fees.fees1)]

helpers_getPositionState(position, pool) ==
  feesEarned(position, pool,
             getFeeGrowthInside(position.tickLower, position.tickUpper, pool.slot0.tick,
                                pool.feeGrowthGlobal0X128, pool.feeGrowthGlobal1X128,
                                SZero, SZero, SZero, SZero))

VARIABLE psCall   \* the last helpers getPositionState call and the state it returned

psVars == <<psCall>>

NoPositionStateCall == [op |-> "none", done |-> TRUE]

\* feeGrowthGlobal and feeGrowthInsideLast of one token, the latter not above
\* the former.
FeeGrowthPairs ==
  {p \in {BigZero, Q128, BigPow2(129)} \X {BigZero, Q128, BigPow2(129)} :
     BigLeq(p[2], p[1])}

\* The calls of getPositionState, by what getPosition and getPoolState read: a
\* position on [0, 10) and a pool whose tick is below the range, on its lower
\* bound and on its upper bound.
PositionStateCalls ==
  {[op |-> "getPositionState", done |-> FALSE,
    position |-> [tickLower |-> 0, tickUpper |-> 10,
                  liquidity |-> Signed(FALSE, liquidity),
                  feeGrowthInside0LastX128 |-> Signed(FALSE, growth0[2]),
                  feeGrowthInside1LastX128 |-> Signed(FALSE, growth1[2]),
                  tokensOwed0 |-> Signed(FALSE, tokensOwed),
                  tokensOwed1 |-> Signed(FALSE, tokensOwed)],
    pool |-> [slot0 |-> [tick |-> tick],
              feeGrowthGlobal0X128 |-> Signed(FALSE, growth0[1]),
              feeGrowthGlobal1X128 |-> Signed(FALSE, growth1[1])],
    result |-> Null] :
     tick \in {-1, 0, 10}, liquidity \in {BigZero, BigPow2(64), Q128},
     growth0 \in FeeGrowthPairs, growth1 \in FeeGrowthPairs,
     tokensOwed \in {BigZero, BigFromNat(5)}}

HelpersGetPositionState ==
  /\ psCall.op = "getPositionState" /\ ~psCall.done
  /\ psCall' = [psCall EXCEPT
                  !.done = TRUE,
                  !.result = helpers_getPositionState(psCall.position, psCall.pool)]

\* ------------------------------------------------------------------------
\* ContractFactory.callWithRetry
\* ------------------------------------------------------------------------

\* A string is the sequence of its characters.
Includes(message, needle) ==
  \E i \in 1..(Len(message) - Len(needle) + 1) :
    SubSeq(message, i, i + Len(needle) - 1) = needle

RECURSIVE NumberToString(_)
\* `${n}` of a non-negative integer: its decimal digits
NumberToString(n) ==
  LET digits == <<"0", "1", "2", "3", "4", "5", "6", "7", "8", "9">>
  IN  IF n < 10 THEN <<digits[n + 1]>>
      ELSE NumberToString(n \div 10) \o <<digits[(n % 10) + 1]>>

DEFAULT_RPC_OPTIONS == [timeout |-> 10000, maxRetries |-> 3, retryDelay |-> 1000]

\* { ...this.options, ...options }: the fields options gives override the
\* factory's, which are the defaults when the factory was built without options.
MergeOptions(base, options) ==
  [k \in DOMAIN base |-> IF k \in DOMAIN options THEN options[k] ELSE base[k]]

Undefined == [class |-> "undefined"]

NewError(message) == [class |-> "Error", message |-> message, code |-> "none"]

ContractError(message, code) ==
  [class |-> "ContractError", message |-> message, code |-> code]

\* `RPC call timed out after ${opts.timeout}ms`
TimeoutMessage(timeout) ==
  <<"R", "P", "C", " ", "c", "a", "l", "l", " ", "t", "i", "m", "e", "d", " ", "o",
    "u", "t", " ", "a", "f", "t", "e", "r", " ">>
    \o NumberToString(timeout) \o <<"m", "s">>

Needle429 == <<"4", "2", "9">>

NeedleRateLimit ==
  <<"r", "a", "t", "e", " ", "l", "i", "m", "i", "t">>

\* error instanceof Error (ContractError extends Error) and the message test
IsRateLimitError(error) ==
  /\ error.class \in {"Error", "ContractError"}
  /\ Includes(error.message, Needle429) \/ Includes(error.message, NeedleRateLimit)

VARIABLES
  rtOpts,        \* opts of the callWithRetry under way
  rtPc,          \* "idle", "racing" (awaiting Promise.race), "waiting" (awaiting
                 \* the retry delay), "done"
  attempt,       \* the loop variable
  invocations,   \* one entry per contractCall() made: "pending", "resolved", "rejected"
  waits,         \* the delays of the retry timers set, in order
  lastError,     \* the local lastError
  rtOutcome      \* how the promise callWithRetry returned has settled

rtVars == <<rtOpts, rtPc, attempt, invocations, waits, lastError, rtOutcome>>

NoOutcome == [kind |-> "none"]

\* The statements after the loop (lines 273..283).
afterLoop(error) ==
  IF error.class = "ContractError" THEN [kind |-> "rejected", error |-> error]
  ELSE [kind |-> "rejected",
        \* 'Contract call failed after all retries'
        error |-> ContractError(
                   <<"C", "o", "n", "t", "r", "a", "c", "t", " ", "c", "a", "l", "l",
                     " ", "f", "a", "i", "l", "e", "d", " ", "a", "f", "t", "e", "r",
                     " ", "a", "l", "l", " ", "r", "e", "t", "r", "i", "e", "s">>,
                   "NETWORK_ERROR")]

\* The head of the loop with the loop variable at n: the next attempt races
\* contractCall() against the timeout, or the loop is left.
LoopHead(n, opts, error) ==
  /\ attempt' = n
  /\ IF n <= opts.maxRetries
     THEN /\ invocations' = Append(invocations, "pending")
          /\ rtPc' = "racing"
          /\ rtOutcome' = rtOutcome
     ELSE /\ invocations' = invocations
          /\ rtPc' = "done"
          /\ rtOutcome' = afterLoop(error)

\* The wait before the next attempt (line 269).
retryWait(opts, n) == opts.retryDelay * n

\* The catch block (lines 249..270) on the rejection of the race with error.
Catch(error) ==
  /\ lastError' = error
  /\ IF IsRateLimitError(error)
     THEN /\ rtOutcome' = [kind |-> "rejected",
                           \* 'RPC rate limit exceeded'
                           error |-> ContractError(
                              <<"R", "P", "C", " ", "r", "a", "t", "e", " ", "l", "i",
                                "m", "i", "t", " ", "e", "x", "c", "e", "e", "d", "e",
                                "d">>,
                             "RPC_RATE_LIMIT")]
          /\ rtPc' = "done"
          /\ waits' = waits
     ELSE IF attempt = rtOpts.maxRetries
     THEN /\ rtOutcome' = afterLoop(error)
          /\ rtPc' = "done"
          /\ waits' = waits
     ELSE /\ rtOutcome' = rtOutcome
          /\ rtPc' = "waiting"
          /\ waits' = Append(waits, retryWait(rtOpts, attempt))
  /\ UNCHANGED <<rtOpts, attempt>>

\* callWithRetry(contractCall, options) up to its first await.
CallWithRetry(options) ==
  /\ rtPc = "idle"
  /\ rtOpts' = MergeOptions(DEFAULT_RPC_OPTIONS, options)
  /\ LoopHead(1, rtOpts', Undefined)
  /\ UNCHANGED <<waits, lastError>>

\* The invocation of the attempt under way resolves: the race resolves and
\* callWithRetry returns the result.
ContractCallResolves ==
  /\ rtPc = "racing"
  /\ invocations' = [invocations EXCEPT ![attempt] = "resolved"]
  /\ rtOutcome' = [kind |-> "resolved", attempt |-> attempt]
  /\ rtPc' = "done"
  /\ UNCHANGED <<rtOpts, attempt, waits, lastError>>

\* The invocation of the attempt under way rejects with error.
ContractCallRejects(error) ==
  /\ rtPc = "racing"
  /\ invocations' = [invocations EXCEPT ![attempt] = "rejected"]
  /\ Catch(error)

\* The timeout timer of the attempt under way fires first: the race rejects,
\* the invocation is left as it is.
TimeoutFires ==
  /\ rtPc = "racing"
  /\ invocations' = invocations
  /\ Catch(ContractError(TimeoutMessage(rtOpts.timeout), "RPC_TIMEOUT"))

\* The retry timer fires: attempt++ and the loop goes round.
WaitElapses ==
  /\ rtPc = "waiting"
  /\ LoopHead(attempt + 1, rtOpts, lastError)
  /\ UNCHANGED <<rtOpts, waits, lastError>>

\* An invocation whose race is over settles; nothing awaits it any more.
AbandonedCallSettles(i, settlement) ==
  /\ i \in DOMAIN invocations
  /\ invocations[i] = "pending"
  /\ i < attempt \/ rtPc \in {"waiting", "done"}
  /\ invocations' = [invocations EXCEPT ![i] = settlement]
  /\ UNCHANGED <<rtOpts, rtPc, attempt, waits, lastError, rtOutcome>>

\* The options given to callWithRetry: each field absent or given.
MaxRetriesInput == 4
RetryOptionFields ==
  [timeout : {4290, -1},
   maxRetries : {0, 1, MaxRetriesInput, -1},
   retryDelay : {10, -1}]

\* The options object with the fields that are given (-1 marks an absent one).
PartialOptions(fields) ==
  [k \in {f \in DOMAIN fields : fields[f] # -1} |-> fields[k]]

NetworkErrorMessage ==
  <<"N", "e", "t", "w", "o", "r", "k", " ", "e", "r", "r", "o", "r">>

\* What contractCall() rejects with.
CallErrors ==
  {NewError(NetworkErrorMessage),
   \* '429 Too Many Requests'
   NewError(
     <<"4", "2", "9", " ", "T", "o", "o", " ", "M", "a", "n", "y", " ", "R", "e", "q",
       "u", "e", "s", "t", "s">>),
   NewError(NeedleRateLimit), ContractError(NetworkErrorMessage, "CONTRACT_ERROR")}

RetryNext ==
  \/ \E fields \in RetryOptionFields : CallWithRetry(PartialOptions(fields))
  \/ ContractCallResolves
  \/ \E error \in CallErrors : ContractCallRejects(error)
  \/ TimeoutFires
  \/ WaitElapses
  \/ \E i \in DOMAIN invocations, settlement \in {"resolved", "rejected"} :
       AbandonedCallSettles(i, settlement)

\* ------------------------------------------------------------------------
\* Specifications
\* ------------------------------------------------------------------------

vars == <<SQRT_PRICE_CACHE, tmCall, sqrtPriceTable, bcCall, config, chain, now,
          running, poolState, positionState, rangeCheckTick, pendingDecision,
          lastRebalance, decision, amCall, oracleConfig, priceCache,
          feeCall, psCall, rtOpts, rtPc, attempt, invocations, waits, lastError,
          rtOutcome>>

\* TickMath: an empty cache, the forward computation tabulated on KnownTicks.
TickMathInit ==
  /\ SQRT_PRICE_CACHE = << >>
  /\ tmCall = NoCall
  /\ sqrtPriceTable = [t \in KnownTicks |-> ComputeSqrtPriceX96(t)]
  /\ bcCall = NoBandCall
  /\ config = DefaultConfig
  /\ chain = [tick |-> 3, tickSpacing |-> 1, position |-> Position(0, 0)]
  /\ now = 0 /\ running = FALSE
  /\ poolState = Null /\ positionState = Null /\ rangeCheckTick = 0
  /\ pendingDecision = Null /\ lastRebalance = Null /\ decision = Null
  /\ amCall = NoAmountCall
  /\ oracleConfig = [chainlinkFeeds |-> {}, uniswapPools |-> {}, staticPrices |-> << >>,
                     cacheTimeMs |-> DefaultCacheTimeMs]
  /\ priceCache = << >> /\ feeCall = NoFeeCall
  /\ psCall = NoPositionStateCall
  /\ rtOpts = DEFAULT_RPC_OPTIONS /\ rtPc = "idle" /\ attempt = 0
  /\ invocations = << >> /\ waits = << >> /\ lastError = Undefined
  /\ rtOutcome = NoOutcome

SpecTickMath ==
  TickMathInit /\ [][TickMathNext /\ UNCHANGED <<bcVars, stVars, amVars, feVars, psVars, rtVars>>]_vars

\* BandCalculator: no call made yet.
BandInit ==
  /\ SQRT_PRICE_CACHE = << >>
  /\ tmCall = NoCall
  /\ sqrtPriceTable = << >>
  /\ bcCall = NoBandCall
  /\ config = DefaultConfig
  /\ chain = [tick |-> 3, tickSpacing |-> 1, position |-> Position(0, 0)]
  /\ now = 0 /\ running = FALSE
  /\ poolState = Null /\ positionState = Null /\ rangeCheckTick = 0
  /\ pendingDecision = Null /\ lastRebalance = Null /\ decision = Null
  /\ amCall = NoAmountCall
  /\ oracleConfig = [chainlinkFeeds |-> {}, uniswapPools |-> {}, staticPrices |-> << >>,
                     cacheTimeMs |-> DefaultCacheTimeMs]
  /\ priceCache = << >> /\ feeCall = NoFeeCall
  /\ psCall = NoPositionStateCall
  /\ rtOpts = DEFAULT_RPC_OPTIONS /\ rtPc = "idle" /\ attempt = 0
  /\ invocations = << >> /\ waits = << >> /\ lastError = Undefined
  /\ rtOutcome = NoOutcome

SpecBand ==
  BandInit /\ [][BandNext /\ UNCHANGED <<tmVars, stVars, amVars, feVars, psVars, rtVars>>]_vars

\* The monitoring worker: a configuration, a pool and a position, no cycle run.
StrategyInit ==
  /\ SQRT_PRICE_CACHE = << >>
  /\ tmCall = NoCall
  /\ sqrtPriceTable = << >>
  /\ bcCall = NoBandCall
  /\ config \in StrategyConfigs
  /\ \E tick \in PoolTicks, tickSpacing \in {1, 10},
        tokensOwed \in {<<0, 0>>, <<6000000, 0>>} :
       chain = [tick |-> tick, tickSpacing |-> tickSpacing,
                position |-> Position(tokensOwed[1], tokensOwed[2])]
  /\ now = 0 /\ running = FALSE
  /\ poolState = Null /\ positionState = Null /\ rangeCheckTick = 0
  /\ pendingDecision = Null /\ lastRebalance = Null /\ decision = Null
  /\ amCall = NoAmountCall
  /\ oracleConfig = [chainlinkFeeds |-> {}, uniswapPools |-> {}, staticPrices |-> << >>,
                     cacheTimeMs |-> DefaultCacheTimeMs]
  /\ priceCache = << >> /\ feeCall = NoFeeCall
  /\ psCall = NoPositionStateCall
  /\ rtOpts = DEFAULT_RPC_OPTIONS /\ rtPc = "idle" /\ attempt = 0
  /\ invocations = << >> /\ waits = << >> /\ lastError = Undefined
  /\ rtOutcome = NoOutcome

SpecStrategy ==
  StrategyInit /\ [][StrategyNext /\ UNCHANGED <<tmVars, bcVars, amVars, feVars, psVars, rtVars>>]_vars

\* The liquidity-amount functions: one drawn call, the forward computation
\* tabulated on the ticks of the position ranges.
AmountsInit ==
  /\ SQRT_PRICE_CACHE = << >>
  /\ tmCall = NoCall
  /\ sqrtPriceTable =
       [t \in {u \in UNION {{r[1], r[2]} : r \in PositionRanges} : ValidTick(u)}
          |-> ComputeSqrtPriceX96(t)]
  /\ bcCall = NoBandCall
  /\ config = DefaultConfig
  /\ chain = [tick |-> 3, tickSpacing |-> 1, position |-> Position(0, 0)]
  /\ now = 0 /\ running = FALSE
  /\ poolState = Null /\ positionState = Null /\ rangeCheckTick = 0
  /\ pendingDecision = Null /\ lastRebalance = Null /\ decision = Null
  /\ amCall \in AmountCalls
  /\ oracleConfig = [chainlinkFeeds |-> {}, uniswapPools |-> {}, staticPrices |-> << >>,
                     cacheTimeMs |-> DefaultCacheTimeMs]
  /\ priceCache = << >> /\ feeCall = NoFeeCall
  /\ psCall = NoPositionStateCall
  /\ rtOpts = DEFAULT_RPC_OPTIONS /\ rtPc = "idle" /\ attempt = 0
  /\ invocations = << >> /\ waits = << >> /\ lastError = Undefined
  /\ rtOutcome = NoOutcome

SpecAmounts ==
  AmountsInit /\ [][AmountsNext /\ UNCHANGED <<tmCall, sqrtPriceTable, bcVars, stVars, feVars, psVars,
                                     rtVars>>]_vars

\* The fee calculators: an oracle with one of the configurations and an empty
\* price cache, the forward computation tabulated on the position ticks.
FeesInit ==
  /\ SQRT_PRICE_CACHE = << >>
  /\ tmCall = NoCall
  /\ sqrtPriceTable =
       [t \in UNION {{r[1], r[2]} : r \in FeePositionRanges} |-> ComputeSqrtPriceX96(t)]
  /\ bcCall = NoBandCall
  /\ config = DefaultConfig
  /\ chain = [tick |-> 3, tickSpacing |-> 1, position |-> Position(0, 0)]
  /\ now = 0 /\ running = FALSE
  /\ poolState = Null /\ positionState = Null /\ rangeCheckTick = 0
  /\ pendingDecision = Null /\ lastRebalance = Null /\ decision = Null
  /\ amCall = NoAmountCall
  /\ oracleConfig \in OracleConfigs
  /\ priceCache = << >> /\ feeCall = NoFeeCall
  /\ psCall = NoPositionStateCall
  /\ rtOpts = DEFAULT_RPC_OPTIONS /\ rtPc = "idle" /\ attempt = 0
  /\ invocations = << >> /\ waits = << >> /\ lastError = Undefined
  /\ rtOutcome = NoOutcome

SpecFees ==
  FeesInit /\ [][FeesNext /\ UNCHANGED <<tmCall, sqrtPriceTable, bcVars, amVars, config,
                                         chain, running, poolState, positionState,
                                         rangeCheckTick, pendingDecision, lastRebalance,
                                         decision, psVars, rtVars>>]_vars

\* calculateRebalanceThreshold: no call made yet.
ThresholdInit ==
  /\ SQRT_PRICE_CACHE = << >>
  /\ tmCall = NoCall
  /\ sqrtPriceTable = << >>
  /\ bcCall = NoBandCall
  /\ config = DefaultConfig
  /\ chain = [tick |-> 3, tickSpacing |-> 1, position |-> Position(0, 0)]
  /\ now = 0 /\ running = FALSE
  /\ poolState = Null /\ positionState = Null /\ rangeCheckTick = 0
  /\ pendingDecision = Null /\ lastRebalance = Null /\ decision = Null
  /\ amCall = NoAmountCall
  /\ oracleConfig = [chainlinkFeeds |-> {}, uniswapPools |-> {}, staticPrices |-> << >>,
                     cacheTimeMs |-> DefaultCacheTimeMs]
  /\ priceCache = << >> /\ feeCall = NoFeeCall
  /\ psCall = NoPositionStateCall
  /\ rtOpts = DEFAULT_RPC_OPTIONS /\ rtPc = "idle" /\ attempt = 0
  /\ invocations = << >> /\ waits = << >> /\ lastError = Undefined
  /\ rtOutcome = NoOutcome

SpecThreshold ==
  ThresholdInit /\ [][ThresholdNext /\ UNCHANGED <<tmCall, sqrtPriceTable, bcVars, amVars,
                                                   stVars, psVars, rtVars>>]_vars

\* helpers getPositionState: one drawn call.
PositionStateInit ==
  /\ SQRT_PRICE_CACHE = << >>
  /\ tmCall = NoCall
  /\ sqrtPriceTable = << >>
  /\ bcCall = NoBandCall
  /\ config = DefaultConfig
  /\ chain = [tick |-> 3, tickSpacing |-> 1, position |-> Position(0, 0)]
  /\ now = 0 /\ running = FALSE
  /\ poolState = Null /\ positionState = Null /\ rangeCheckTick = 0
  /\ pendingDecision = Null /\ lastRebalance = Null /\ decision = Null
  /\ amCall = NoAmountCall
  /\ oracleConfig = [chainlinkFeeds |-> {}, uniswapPools |-> {}, staticPrices |-> << >>,
                     cacheTimeMs |-> DefaultCacheTimeMs]
  /\ priceCache = << >> /\ feeCall = NoFeeCall
  /\ psCall \in PositionStateCalls
  /\ rtOpts = DEFAULT_RPC_OPTIONS /\ rtPc = "idle" /\ attempt = 0
  /\ invocations = << >> /\ waits = << >> /\ lastError = Undefined
  /\ rtOutcome = NoOutcome

SpecPositionState ==
  PositionStateInit /\ [][HelpersGetPositionState /\ UNCHANGED <<tmVars, bcVars, stVars,
                                                                 amVars, feVars,
                                                                 rtVars>>]_vars

\* callWithRetry: a factory built without options, no call made yet.
RetryInit ==
  /\ SQRT_PRICE_CACHE = << >>
  /\ tmCall = NoCall
  /\ sqrtPriceTable = << >>
  /\ bcCall = NoBandCall
  /\ config = DefaultConfig
  /\ chain = [tick |-> 3, tickSpacing |-> 1, position |-> Position(0, 0)]
  /\ now = 0 /\ running = FALSE
  /\ poolState = Null /\ positionState = Null /\ rangeCheckTick = 0
  /\ pendingDecision = Null /\ lastRebalance = Null /\ decision = Null
  /\ amCall = NoAmountCall
  /\ oracleConfig = [chainlinkFeeds |-> {}, uniswapPools |-> {}, staticPrices |-> << >>,
                     cacheTimeMs |-> DefaultCacheTimeMs]
  /\ priceCache = << >> /\ feeCall = NoFeeCall
  /\ psCall = NoPositionStateCall
  /\ rtOpts = DEFAULT_RPC_OPTIONS /\ rtPc = "idle" /\ attempt = 0
  /\ invocations = << >> /\ waits = << >> /\ lastError = Undefined
  /\ rtOutcome = NoOutcome

SpecRetry ==
  RetryInit /\ [][RetryNext /\ UNCHANGED <<tmVars, bcVars, stVars, amVars, feVars,
                                           psVars>>]_vars

\* ------------------------------------------------------------------------
\* Properties of TickMath (checked under SpecTickMath)
\* ------------------------------------------------------------------------

Abs(n) == IF n < 0 THEN -n ELSE n

\* The last call was getTickFromSqrtPriceX96 on the cached sqrt price of tick t.
InvertedSqrtPriceOf(t) ==
  /\ tmCall.op = "getTickFromSqrtPriceX96"
  /\ t \in DOMAIN SQRT_PRICE_CACHE
  /\ tmCall.sqrtPriceX96 = SQRT_PRICE_CACHE[t]

\* C1: for every valid tick t, getTickFromSqrtPriceX96(getSqrtPriceX96FromTick(t))
\* does not fail and returns a tick within 1 of t.
C1_RoundTripWithinOne ==
  \A t \in DOMAIN SQRT_PRICE_CACHE :
    InvertedSqrtPriceOf(t) => tmCall.ok /\ Abs(tmCall.tick - t) <= 1

\* C2: getSqrtPriceX96FromTick is strictly positive and monotonically
\* increasing: for valid ticks a < b, 0 < f(a) <= f(b), and f(MAX_TICK) > f(MIN_TICK).
C2_SqrtPricePositiveMonotone ==
  /\ \A a, b \in DOMAIN SQRT_PRICE_CACHE :
       a < b => /\ BigLt(BigZero, SQRT_PRICE_CACHE[a])
                /\ BigLeq(SQRT_PRICE_CACHE[a], SQRT_PRICE_CACHE[b])
  /\ {MIN_TICK, MAX_TICK} \subseteq DOMAIN SQRT_PRICE_CACHE
       => BigLt(SQRT_PRICE_CACHE[MIN_TICK], SQRT_PRICE_CACHE[MAX_TICK])

\* C3: getTickFromSqrtPriceX96 is an exact inverse on the forward function's
\* outputs: for every valid tick t, getTickFromSqrtPriceX96(getSqrtPriceX96FromTick(t)) = t.
C3_RoundTripExact ==
  \A t \in DOMAIN SQRT_PRICE_CACHE :
    InvertedSqrtPriceOf(t) => tmCall.ok /\ tmCall.tick = t

\* ------------------------------------------------------------------------
\* Properties of BandCalculator (checked under SpecBand)
\* ------------------------------------------------------------------------

\* C4: isInRange(tick, lower, upper) is true exactly when lower <= tick < upper;
\* for lower < upper it is true at tick = lower and false at tick = upper.
C4_IsInRangeHalfOpen ==
  bcCall.op = "isInRange" =>
    /\ bcCall.result <=>
         (bcCall.tickLower <= bcCall.currentTick /\ bcCall.currentTick < bcCall.tickUpper)
    /\ bcCall.tickLower < bcCall.tickUpper /\ bcCall.currentTick = bcCall.tickLower
         => bcCall.result
    /\ bcCall.tickLower < bcCall.tickUpper /\ bcCall.currentTick = bcCall.tickUpper
         => ~bcCall.result

C4_Witness ==
  /\ bcCall.op = "isInRange"
  /\ bcCall.tickLower < bcCall.tickUpper
  /\ bcCall.currentTick = bcCall.tickUpper
  /\ ~bcCall.result

ReturnedBand == bcCall.op = "calculateBand" /\ bcCall.result.ok

\* floor(basisPoints / 2) for basisPoints >= 0
HalfOf(basisPoints) ==
  CHOOSE h \in 0..basisPoints : 2 * h <= basisPoints /\ basisPoints < 2 * (h + 1)

\* The largest multiple of spacing that is <= x, for spacing > 0.
LargestMultipleAtMost(x, spacing) ==
  CHOOSE m \in (x - spacing + 1)..x : m % spacing = 0

\* The smallest multiple of spacing that is >= x, for spacing > 0.
SmallestMultipleAtLeast(x, spacing) ==
  CHOOSE m \in x..(x + spacing - 1) : m % spacing = 0

\* C5: a returned band has tickLower the largest multiple of tickSpacing that is
\* <= currentTick - floor(basisPoints/2) and tickUpper the smallest multiple
\* that is >= currentTick + floor(basisPoints/2); (0,100,1) gives [-50,50] and
\* (5,100,10) gives [-50,60].
C5_BandAlignedOutward ==
  ReturnedBand =>
    LET half == HalfOf(bcCall.basisPoints)
    IN  /\ bcCall.result.tickLower =
             LargestMultipleAtMost(bcCall.currentTick - half, bcCall.tickSpacing)
        /\ bcCall.result.tickUpper =
             SmallestMultipleAtLeast(bcCall.currentTick + half, bcCall.tickSpacing)
        /\ (bcCall.currentTick = 0 /\ bcCall.basisPoints = 100 /\ bcCall.tickSpacing = 1)
             => bcCall.result.tickLower = -50 /\ bcCall.result.tickUpper = 50
        /\ (bcCall.currentTick = 5 /\ bcCall.basisPoints = 100 /\ bcCall.tickSpacing = 10)
             => bcCall.result.tickLower = -50 /\ bcCall.result.tickUpper = 60

C5_Witness ==
  /\ ReturnedBand
  /\ bcCall.currentTick = 5 /\ bcCall.basisPoints = 100 /\ bcCall.tickSpacing = 10
  /\ bcCall.result.tickLower = -50 /\ bcCall.result.tickUpper = 60

\* C6: calculateBand fails when basisPoints <= 0, when tickSpacing is not one
\* of 1, 10, 60, 200, or when the aligned tickLower >= tickUpper; every band
\* it returns has tickLower < tickUpper.
C6_BandFailures ==
  bcCall.op = "calculateBand" =>
    /\ bcCall.basisPoints <= 0 => ~bcCall.result.ok
    /\ bcCall.tickSpacing \notin {1, 10, 60, 200} => ~bcCall.result.ok
    /\ ( /\ bcCall.basisPoints > 0
         /\ bcCall.tickSpacing \in {1, 10, 60, 200}
         /\ LargestMultipleAtMost(bcCall.currentTick - HalfOf(bcCall.basisPoints),
                                  bcCall.tickSpacing)
              >= SmallestMultipleAtLeast(bcCall.currentTick + HalfOf(bcCall.basisPoints),
                                         bcCall.tickSpacing) )
         => ~bcCall.result.ok
    /\ bcCall.result.ok => bcCall.result.tickLower < bcCall.result.tickUpper

C6_Witness ==
  /\ bcCall.op = "calculateBand"
  /\ bcCall.basisPoints = 1 /\ bcCall.tickSpacing = 10 /\ bcCall.currentTick = 10
  /\ ~bcCall.result.ok

\* C7: for a currentTick within [MIN_TICK, MAX_TICK], calculateBand never
\* returns a band with tickLower < MIN_TICK or tickUpper > MAX_TICK.
C7_BandWithinTickBounds ==
  (ReturnedBand /\ ValidTick(bcCall.currentTick)) =>
    bcCall.result.tickLower >= MIN_TICK /\ bcCall.result.tickUpper <= MAX_TICK

\* ------------------------------------------------------------------------
\* Properties of RebalanceStrategy (checked under SpecStrategy)
\* ------------------------------------------------------------------------

Decided == decision # Null /\ decision.ok

\* The three triggers, from the inputs of the evaluation that produced `decision`.
\* The tick compared with the range is the one getPositionState read from slot0
\* when it set positionState.isInRange.
TriggerOutOfRange ==
  ~(positionState.tickLower <= rangeCheckTick /\ rangeCheckTick < positionState.tickUpper)

TriggerTimeCap ==
  \/ lastRebalance = Null
  \/ decision.timestamp - lastRebalance.timestamp > config.timeCapHours * MsPerHour

\* fees.totalUsd / estimatedGasCostUsd >= feeGasMultiple, in units of 10^-6 USD
TriggerEconomic ==
  LET owed == positionState.tokensOwed0 + positionState.tokensOwed1
  IN  IF config.estimatedGasCostUsd = 0 THEN owed > 0
      ELSE owed >= config.feeGasMultiple * config.estimatedGasCostUsd * 1000000

C9_ReasonPrecedence ==
  Decided =>
    /\ decision.reason =
         (IF TriggerOutOfRange THEN "OUT_OF_RANGE"
          ELSE IF TriggerTimeCap THEN "TIME_CAP_EXCEEDED"
          ELSE IF TriggerEconomic THEN "ECONOMIC_TRIGGER"
          ELSE "NONE")
    /\ decision.reason = "NONE" <=> ~decision.shouldRebalance

C9_Witness ==
  /\ Decided
  /\ TriggerOutOfRange /\ TriggerTimeCap /\ TriggerEconomic
  /\ lastRebalance # Null
  /\ decision.reason = "OUT_OF_RANGE"

\* C10: newRange is non-null exactly when shouldRebalance is true, and then it
\* is calculateBand(poolState.currentTick, config.bandBasisPoints, tickSpacing)
\* for the pool's tick spacing.
C10_NewRangeFromPoolSpacing ==
  Decided =>
    /\ decision.newRange # Null <=> decision.shouldRebalance
    /\ decision.shouldRebalance =>
         LET band == calculateBand(poolState.tick, config.bandBasisPoints,
                                   chain.tickSpacing)
         IN  /\ band.ok
             /\ decision.newRange = [tickLower |-> band.tickLower,
                                     tickUpper |-> band.tickUpper]

\* ------------------------------------------------------------------------
\* Properties of the liquidity-amount functions (checked under SpecAmounts)
\* ------------------------------------------------------------------------

AmountsReturned(op) == amCall.op = op /\ amCall.done /\ amCall.result.ok

C14_AmountsSymmetric ==
  (/\ amCall.op \in {"getAmount0ForLiquidity", "getAmount1ForLiquidity"}
   /\ amCall.done
   /\ amCall.sqrtRatioAX96 # BigZero /\ amCall.sqrtRatioBX96 # BigZero) =>
    /\ amCall.result.ok
    /\ amCall.result =
         (IF amCall.op = "getAmount0ForLiquidity"
          THEN getAmount0ForLiquidity(amCall.sqrtRatioBX96, amCall.sqrtRatioAX96,
                                      amCall.liquidity)
          ELSE getAmount1ForLiquidity(amCall.sqrtRatioBX96, amCall.sqrtRatioAX96,
                                      amCall.liquidity))

C14_Witness ==
  /\ AmountsReturned("getAmount0ForLiquidity")
  /\ BigLt(amCall.sqrtRatioBX96, amCall.sqrtRatioAX96)
  /\ amCall.sqrtRatioBX96 # BigZero
  /\ amCall.result.value # BigZero

\* C15: calculateConcentratedImpermanentLoss returns impermanentLossPercent = 0
\* whenever the initial and the current sqrt price are equal, for every
\* position with tickLower < tickUpper and every liquidity.
C15_NoLossWhenPriceUnchanged ==
  (/\ AmountsReturned("calculateConcentratedImpermanentLoss")
   /\ amCall.position.tickLower < amCall.position.tickUpper
   /\ amCall.initialSqrtPriceX96 = amCall.currentSqrtPriceX96) =>
    /\ amCall.result.impermanentLossPercent.sign = 0
    /\ amCall.result.impermanentLossPercent.n = BigZero

C15_Witness ==
  /\ AmountsReturned("calculateConcentratedImpermanentLoss")
  /\ amCall.position.tickLower < amCall.position.tickUpper
  /\ amCall.initialSqrtPriceX96 = amCall.currentSqrtPriceX96
  /\ amCall.result.holdValue.n # BigZero
  /\ amCall.result.impermanentLossPercent.sign = 0

\* The current price is 1 (sqrt price 2^96, tick 0) and tickLower < 0 < tickUpper.
InsideRangeByTicks ==
  /\ amCall.position.tickLower < 0 /\ 0 < amCall.position.tickUpper
  /\ amCall.currentSqrtPriceX96 = Q96

\* The current sqrt price is strictly between the sqrt prices the function
\* obtained for tickLower and tickUpper.
InsideRangeBySqrtBounds ==
  /\ BigLt(amCall.result.cache[amCall.position.tickLower], amCall.currentSqrtPriceX96)
  /\ BigLt(amCall.currentSqrtPriceX96, amCall.result.cache[amCall.position.tickUpper])

\* C16: when the current sqrt price differs from the initial one and the
\* current price lies strictly inside the position's range,
\* calculateConcentratedImpermanentLoss returns impermanentLossPercent < 0,
\* for price moves up as well as down.
C16_LossNegativeInsideRange ==
  (/\ AmountsReturned("calculateConcentratedImpermanentLoss")
   /\ amCall.initialSqrtPriceX96 # amCall.currentSqrtPriceX96
   /\ InsideRangeByTicks \/ InsideRangeBySqrtBounds) =>
    amCall.result.impermanentLossPercent.sign < 0

----------------------------------------------------------------------------
\* Out-of-range distance (checked under SpecBand)

\* C18: for a range with tickLower <= tickUpper, getOutOfRangeDistance
\* returns 0 when tickLower <= currentTick < tickUpper, tickLower - currentTick
\* when currentTick < tickLower, and currentTick - tickUpper + 1 when
\* currentTick >= tickUpper; for tickLower < tickUpper the result is 0 exactly
\* when isInRange is true of the same arguments and at least 1 otherwise.
C18_OutOfRangeDistance ==
  (bcCall.op = "getOutOfRangeDistance" /\ bcCall.tickLower <= bcCall.tickUpper) =>
    /\ (bcCall.tickLower <= bcCall.currentTick /\ bcCall.currentTick < bcCall.tickUpper)
         => bcCall.result = 0
    /\ bcCall.currentTick < bcCall.tickLower
         => bcCall.result = bcCall.tickLower - bcCall.currentTick
    /\ bcCall.currentTick >= bcCall.tickUpper
         => bcCall.result = bcCall.currentTick - bcCall.tickUpper + 1
    /\ bcCall.tickLower < bcCall.tickUpper =>
         /\ bcCall.result = 0
              <=> isInRange(bcCall.currentTick, bcCall.tickLower, bcCall.tickUpper)
         /\ ~isInRange(bcCall.currentTick, bcCall.tickLower, bcCall.tickUpper)
              => bcCall.result >= 1

\* The tick sits exactly on the upper bound of a proper range: distance 1.
C18_Witness ==
  /\ bcCall.op = "getOutOfRangeDistance"
  /\ bcCall.tickLower < bcCall.tickUpper
  /\ bcCall.currentTick = bcCall.tickUpper
  /\ bcCall.result = 1

----------------------------------------------------------------------------
\* Reciprocal symmetry and the anchor at tick 0 (checked under SpecTickMath)

ReciprocalTolerance == BigFromNat(1000000)

\* C19: for every valid tick t, getSqrtPriceX96FromTick(t) *
\* getSqrtPriceX96FromTick(-t) / 2^96 (integer division) differs from 2^96 by
\* no more than 1000000.  Stated of the tick of the last call whose opposite
\* tick has been converted before.
C19_ReciprocalSymmetry ==
  (/\ tmCall.op = "getSqrtPriceX96FromTick" /\ tmCall.ok
   /\ (-tmCall.tick) \in DOMAIN SQRT_PRICE_CACHE) =>
    LET product == BigDiv(BigMul(tmCall.sqrtPriceX96, SQRT_PRICE_CACHE[-tmCall.tick]), Q96)
    IN  /\ BigLeq(product, BigAdd(Q96, ReciprocalTolerance))
        /\ BigLeq(Q96, BigAdd(product, ReciprocalTolerance))

\* C20: getSqrtPriceX96FromTick(0) returns exactly 2^96, and
\* getTickFromSqrtPriceX96(2^96) returns 0.
C20_TickZeroAnchor ==
  /\ (tmCall.op = "getSqrtPriceX96FromTick" /\ tmCall.tick = 0)
       => tmCall.ok /\ tmCall.sqrtPriceX96 = Q96
  /\ (tmCall.op = "getTickFromSqrtPriceX96" /\ tmCall.sqrtPriceX96 = Q96)
       => tmCall.ok /\ tmCall.tick = 0

\* Tick 0 has been converted to 2^96, and 2^96 has then been converted back.
C20_Witness ==
  /\ 0 \in DOMAIN SQRT_PRICE_CACHE /\ SQRT_PRICE_CACHE[0] = Q96
  /\ tmCall.op = "getTickFromSqrtPriceX96" /\ tmCall.sqrtPriceX96 = Q96
  /\ tmCall.ok /\ tmCall.tick = 0

\* ------------------------------------------------------------------------
\* Properties of the fee calculators (checked under SpecFees; C17 under
\* SpecThreshold)
\* ------------------------------------------------------------------------

\* The configuration holds no usable price of the token: no source delivers
\* one, and the static price is missing or 0.
NoPriceConfigured(token) ==
  \/ token \notin DOMAIN oracleConfig.staticPrices
  \/ oracleConfig.staticPrices[token].n = 0

\* The outcome of the fee calculation made by the last call, if it made one.
FeesOutcome ==
  IF feeCall.op = "EnhancedFeeCalculator.shouldRebalance"
  THEN feeCall.result.fees ELSE feeCall.result

\* C11: when the price lookup of token0 or of token1 fails, the enhanced
\* calculateUncollectedFees fails, and so does the shouldRebalance that called
\* it: no fee result and no decision is returned.  A lookup fails for every
\* token without a configured price: no default price takes its place.
C11_PriceFailurePropagates ==
  feeCall.op \in {"EnhancedFeeCalculator.calculateUncollectedFees",
                  "EnhancedFeeCalculator.shouldRebalance"} =>
    /\ NoPriceConfigured(feeCall.poolInfo.token0) => ~FeesOutcome.price0.ok
    /\ NoPriceConfigured(feeCall.poolInfo.token1) => ~FeesOutcome.price1.ok
    /\ (~FeesOutcome.price0.ok \/ ~FeesOutcome.price1.ok) =>
         /\ ~FeesOutcome.ok
         /\ ~feeCall.result.ok
         /\ feeCall.op = "EnhancedFeeCalculator.shouldRebalance"
              => feeCall.result.decision = Null

\* shouldRebalance has failed because the second token has no price, after
\* the first token's price was found.
C11_Witness ==
  /\ feeCall.op = "EnhancedFeeCalculator.shouldRebalance"
  /\ feeCall.result.fees.price0.ok /\ ~feeCall.result.fees.price1.ok
  /\ ~feeCall.result.ok /\ feeCall.result.decision = Null

DecimalsOutOfRange(decimals) == decimals < 0 \/ decimals > 18

\* C12: calculateUncollectedFees fails, returning no fee amounts, whenever
\* decimals0 or decimals1 is below 0 or above 18, in FeeCalculator and in
\* EnhancedFeeCalculator alike.
C12_DecimalsValidated ==
  /\ (/\ feeCall.op = "FeeCalculator.calculateUncollectedFees"
      /\ DecimalsOutOfRange(feeCall.decimals0) \/ DecimalsOutOfRange(feeCall.decimals1))
       => ~feeCall.result.ok
  /\ (/\ feeCall.op = "EnhancedFeeCalculator.calculateUncollectedFees"
      /\ \/ DecimalsOutOfRange(feeCall.poolInfo.decimals0)
         \/ DecimalsOutOfRange(feeCall.poolInfo.decimals1))
       => ~feeCall.result.ok

\* C17: for a gas cost >= 0 and a multiplier > 0, calculateRebalanceThreshold
\* with dailyFees > 0 returns daysToBreakeven = estimatedGasCost / dailyFees
\* and shouldRebalance = (daysToBreakeven <= thresholdMultiplier), equality
\* included; with dailyFees = 0 it returns Infinity and false.
C17_RebalanceThreshold ==
  (/\ feeCall.op = "calculateRebalanceThreshold"
   /\ feeCall.estimatedGasCost.n >= 0 /\ feeCall.thresholdMultiplier.n > 0) =>
    /\ feeCall.dailyFees.n > 0 =>
         /\ feeCall.result.ok
         /\ feeCall.result.daysToBreakeven.kind = "finite"
         /\ feeCall.result.daysToBreakeven.n * feeCall.dailyFees.n * feeCall.estimatedGasCost.d
              = feeCall.estimatedGasCost.n * feeCall.dailyFees.d * feeCall.result.daysToBreakeven.d
         /\ feeCall.result.shouldRebalance <=>
              (feeCall.result.daysToBreakeven.n * feeCall.thresholdMultiplier.d
                 <= feeCall.thresholdMultiplier.n * feeCall.result.daysToBreakeven.d)
    /\ feeCall.dailyFees.n = 0 =>
         /\ feeCall.result.ok
         /\ feeCall.result.daysToBreakeven = Infinity
         /\ ~feeCall.result.shouldRebalance

\* daysToBreakeven equals the multiplier (as 30 / 20 against 1.5): rebalance.
C17_Witness ==
  /\ feeCall.op = "calculateRebalanceThreshold"
  /\ feeCall.result.ok
  /\ feeCall.result.daysToBreakeven = feeCall.thresholdMultiplier
  /\ feeCall.result.shouldRebalance

\* ------------------------------------------------------------------------
\* Bounds, memoization and bit selection of TickMath (checked under SpecTickMath)
\* ------------------------------------------------------------------------

\* C21: a tickToPrice or getSqrtPriceX96FromTick call for a tick below MIN_TICK
\* or above MAX_TICK fails, whatever calls were made before it, returns no
\* value and leaves the sqrt-price cache as it was.
C21_OutOfBoundsFails ==
  [][(/\ tmCall'.op \in {"tickToPrice", "getSqrtPriceX96FromTick"}
      /\ tmCall'.tick < MIN_TICK \/ tmCall'.tick > MAX_TICK) =>
       /\ ~tmCall'.ok
       /\ SQRT_PRICE_CACHE' = SQRT_PRICE_CACHE
       /\ tmCall'.tick \notin DOMAIN SQRT_PRICE_CACHE']_vars

\* getSqrtPriceX96FromTick has failed for an out-of-bounds tick on a cache
\* that earlier calls have filled.
C21_Witness ==
  /\ tmCall.op = "getSqrtPriceX96FromTick"
  /\ tmCall.tick > MAX_TICK /\ ~tmCall.ok
  /\ MAX_TICK \in DOMAIN SQRT_PRICE_CACHE
  /\ tmCall.tick \notin DOMAIN SQRT_PRICE_CACHE

\* C22: after a successful getSqrtPriceX96FromTick(t) the cache holds an entry
\* for t; every call for t, the first and each later one, returns what the
\* uncached computation gives for t; every cached key is within
\* [MIN_TICK, MAX_TICK].
C22_MemoizationTransparent ==
  /\ \A t \in DOMAIN SQRT_PRICE_CACHE :
       ValidTick(t) /\ SQRT_PRICE_CACHE[t] = SqrtPriceX96At(t)
  /\ (tmCall.op = "getSqrtPriceX96FromTick" /\ tmCall.ok) =>
       /\ tmCall.tick \in DOMAIN SQRT_PRICE_CACHE
       /\ tmCall.sqrtPriceX96 = SqrtPriceX96At(tmCall.tick)
       /\ tmCall.sqrtPriceX96 = SQRT_PRICE_CACHE[tmCall.tick]

\* A call answered from the cache.
C22_Witness ==
  /\ tmCall.op = "getSqrtPriceX96FromTick" /\ tmCall.ok /\ tmCall.hit
  /\ tmCall.sqrtPriceX96 = SqrtPriceX96At(tmCall.tick)

\* Bit k (0 .. 19) of the natural number n is 1.
BitIsSet(n, k) == (n \div (2 ^ k)) % 2 = 1

\* C25: in the computation of getSqrtPriceX96FromTick(tick), for each bit
\* position k from 0 to 19 the k-th constant is selected exactly when bit k
\* of |tick| is 1.
C25_ConstantsSelectedByBits ==
  (tmCall.op = "getSqrtPriceX96FromTick" /\ tmCall.ok) =>
    \A k \in 0..19 : BitSelected(Abs(tmCall.tick), 2 ^ k) <=> BitIsSet(Abs(tmCall.tick), k)

\* ------------------------------------------------------------------------
\* The band contains its centre (checked under SpecBand)
\* ------------------------------------------------------------------------

\* C26: whenever calculateBand(currentTick, basisPoints, tickSpacing) returns,
\* tickLower <= currentTick < tickUpper, so isInRange(currentTick, tickLower,
\* tickUpper) is true, also for basisPoints = 1.
C26_BandContainsCentre ==
  ReturnedBand =>
    /\ bcCall.result.tickLower <= bcCall.currentTick
    /\ bcCall.currentTick < bcCall.result.tickUpper
    /\ isInRange(bcCall.currentTick, bcCall.result.tickLower, bcCall.result.tickUpper)

\* A band of basisPoints = 1 (half-width 0) has been returned.
C26_Witness ==
  /\ ReturnedBand /\ bcCall.basisPoints = 1
  /\ bcCall.result.tickLower <= bcCall.currentTick
  /\ bcCall.currentTick < bcCall.result.tickUpper

\* ------------------------------------------------------------------------
\* The decision of EnhancedFeeCalculator.shouldRebalance (checked under SpecFees)
\* ------------------------------------------------------------------------

ShouldRebalanceReturned ==
  feeCall.op = "EnhancedFeeCalculator.shouldRebalance" /\ feeCall.result.ok

FeeCallOutOfRange ==
  \/ feeCall.poolInfo.currentTick < feeCall.position.tickLower
  \/ feeCall.poolInfo.currentTick >= feeCall.position.tickUpper

\* daysToBreakeven < 3, on the returned metrics
RecoverableInThreeDays ==
  /\ feeCall.result.decision.metrics.daysToBreakeven.kind = "finite"
  /\ feeCall.result.decision.metrics.daysToBreakeven.n
       < 3 * feeCall.result.decision.metrics.daysToBreakeven.d

\* C27: shouldRebalance returns currentIL = 0, never the reason
\* 'High impermanent loss (>5%) and reasonable gas costs', and
\* shouldRebalance = true exactly when the position is out of range and
\* daysToBreakeven < 3; never when the uncollected fees are 0.
C27_NoImpermanentLossBranch ==
  ShouldRebalanceReturned =>
    /\ feeCall.result.decision.metrics.currentIL.sign = 0
    /\ feeCall.result.decision.metrics.currentIL.n = BigZero
    /\ feeCall.result.decision.reason
         # "High impermanent loss (>5%) and reasonable gas costs"
    /\ feeCall.result.decision.shouldRebalance
         <=> (FeeCallOutOfRange /\ RecoverableInThreeDays)
    /\ (feeCall.position.tokensOwed0 = 0 /\ feeCall.position.tokensOwed1 = 0)
         => ~feeCall.result.decision.shouldRebalance

\* An in-range position whose gas cost is recovered in less than 3 days: no
\* rebalance.
C27_Witness ==
  /\ ShouldRebalanceReturned
  /\ ~FeeCallOutOfRange /\ RecoverableInThreeDays
  /\ ~feeCall.result.decision.shouldRebalance
  /\ feeCall.result.decision.reason = "In range and IL acceptable"

\* ------------------------------------------------------------------------
\* The first evaluation (checked under SpecStrategy)
\* ------------------------------------------------------------------------

\* C28: a decision made without a previous decision has shouldRebalance = true
\* and urgency MEDIUM or HIGH; for an in-range position the reason is
\* TIME_CAP_EXCEEDED, also with zero fees.
C28_FirstEvaluationRebalances ==
  (Decided /\ lastRebalance = Null) =>
    /\ decision.shouldRebalance
    /\ decision.urgency \in {"MEDIUM", "HIGH"}
    /\ ~TriggerOutOfRange =>
         decision.reason = "TIME_CAP_EXCEEDED" /\ decision.urgency = "MEDIUM"

\* The first evaluation of an in-range position with zero fees.
C28_Witness ==
  /\ Decided /\ lastRebalance = Null
  /\ ~TriggerOutOfRange
  /\ positionState.tokensOwed0 = 0 /\ positionState.tokensOwed1 = 0
  /\ decision.shouldRebalance /\ decision.reason = "TIME_CAP_EXCEEDED"

\* ------------------------------------------------------------------------
\* Properties of helpers getPositionState (checked under SpecPositionState)
\* ------------------------------------------------------------------------

\* a >= b on bigints
SGeq(a, b) == ~SSub(a, b).neg

\* C30: getPositionState never reports fees below what is already owed: for
\* every snapshot, in range or out of range, with feeGrowthInsideLast not above
\* the global fee growth, feesEarned0 >= tokensOwed0 and feesEarned1 >=
\* tokensOwed1.
C30_FeesEarnedNotBelowOwed ==
  (psCall.op = "getPositionState" /\ psCall.done) =>
    /\ SGeq(psCall.result.feesEarned0, psCall.result.position.tokensOwed0)
    /\ SGeq(psCall.result.feesEarned1, psCall.result.position.tokensOwed1)

\* ------------------------------------------------------------------------
\* Properties of callWithRetry (checked under SpecRetry)
\* ------------------------------------------------------------------------

\* The error of a timeout timer of callWithRetry.
IsTimeoutError(error) ==
  error.class = "ContractError" /\ error.code = "RPC_TIMEOUT"

\* C23: callWithRetry invokes the call at most maxRetries times, returns the
\* result of the first attempt that succeeds without further attempts, retries
\* after an ordinary failure or a timeout (it gives up after such a failure
\* only on attempt maxRetries), stops at once with a ContractError coded
\* RPC_RATE_LIMIT when a failure message contains '429' or 'rate limit', and
\* rejects with a ContractError when no attempt succeeds.
C23_RetryContract ==
  /\ Len(invocations) <= rtOpts.maxRetries
  /\ rtOutcome.kind = "resolved" =>
       /\ rtPc = "done"
       /\ Len(invocations) = rtOutcome.attempt
       /\ invocations[rtOutcome.attempt] = "resolved"
  /\ (/\ rtPc = "done"
      /\ rtOutcome.kind = "rejected"
      /\ lastError # Undefined
      /\ ~IsRateLimitError(lastError) \/ IsTimeoutError(lastError)) =>
       attempt = rtOpts.maxRetries
  /\ (lastError # Undefined /\ IsRateLimitError(lastError)) =>
       /\ rtPc = "done"
       /\ rtOutcome.kind = "rejected"
       /\ rtOutcome.error.class = "ContractError"
       /\ rtOutcome.error.code = "RPC_RATE_LIMIT"
  /\ (rtPc = "done" /\ rtOutcome.kind # "resolved") =>
       /\ rtOutcome.kind = "rejected"
       /\ rtOutcome.error.class = "ContractError"

\* C24: the wait before the next attempt grows exponentially: each wait is a
\* constant multiple, greater than 1, of the previous wait.
C24_ExponentialBackoff ==
  /\ \A i \in 2..Len(waits) : waits[i] > waits[i - 1]
  /\ \A i \in 3..Len(waits) : waits[i] * waits[i - 2] = waits[i - 1] * waits[i - 1]

\* C29: during one callWithRetry at most one invocation of the supplied call
\* is pending at any time, also after an attempt that ended by timeout.
C29_OneInvocationPending ==
  Cardinality({i \in DOMAIN invocations : invocations[i] = "pending"}) <= 1

====
